---- MODULE Spec2Model ----
(***************************************************************************)
(* Model of the product-extraction pipeline: html_parser.py (metadata      *)
(* harvesting, truth sheet), image_processor.py (image URL extraction,     *)
(* srcset parsing, quality filter with its probes, non-product path        *)
(* filter, product image normalisation) and main.py (run_pipeline and the  *)
(* batch driver run_all_pipelines).                                        *)
(*                                                                         *)
(* Strings are modelled as parsed texts: a record with the scheme, the     *)
(* host, the path (a sequence of segments, each a sequence of words        *)
(* joined by "-") and the query.  A plain word such as "Product" is the    *)
(* relative text whose path is that single word, which is also how         *)
(* urllib's urlparse reads it.                                             *)
(***************************************************************************)
EXTENDS Integers, Sequences, FiniteSets, TLC

VARIABLES
    md_scripts,   \* extract_metadata: the ld+json scripts find_all has yielded so far
    md_json_ld,   \* extract_metadata: output["json_ld"]
    md_pc,        \* "harvest" while the loop runs, "extracted", then "built"
    md_meta,      \* extract_metadata: output["meta"]
    md_hybrid,    \* what get_hybrid_context made of md_json_ld (NoResult before)
    paths,        \* run_all_pipelines: html_paths
    pc,           \* per task: "created", "gather", "ai", "done"
    stage1,       \* per task: "idle", "running", "ok", "raised" (get_hybrid_context)
    stage2,       \* per task: "idle", "running", "ok", "raised" (get_filtered_media)
    truth_sheet,  \* per task: context["truth_sheet"] as run_pipeline holds it
    candidates,   \* per task: media["candidates"]
    response,     \* per task: what the reasoning call did (NoResult before it ends)
    ai_calls,     \* per task: the number of times ai.responses has been called
    outcome,      \* per task: what run_pipeline returned or raised
    finished,     \* the tasks in the order they finished
    batch_pc,     \* run_all_pipelines: "running", "returned", "raised"
    results,      \* run_all_pipelines: the list it returned
    im_doc,       \* extract_image_urls: the document html_path names
    im_base_url,  \* extract_image_urls: the base_url argument (None by default)
    im_pc,        \* extract_image_urls: "start", then "done" or "raised"
    im_best,      \* per <img>: what _parse_best_from_srcset returned for its srcset
    im_urls,      \* extract_image_urls: the list it returned
    fl_urls,      \* filter_image_urls: the urls argument
    fl_pc,        \* filter_image_urls: "start", "running", "returned"
    fl_session,   \* the aiohttp session: "none", "open", "closed"
    fl_check,     \* per url: "skipped", "waiting" (for sem), "probing", "done"
    fl_probes,    \* per url: the number of session.get calls issued for it
    fl_dims,      \* per url: what _get_img_dims returned (Pending before)
    fl_max,       \* filter_image_urls: the max_concurrent argument
    fl_sem,       \* the value of the semaphore
    fl_finished,  \* the positions of the urls whose check() returned, in that order
    fl_result,    \* filter_image_urls: the list it returned
    q_w,          \* _passes_quality: the argument w
    q_h,          \* _passes_quality: the argument h
    q_pc,         \* _passes_quality: "called", then "returned"
    q_pass,       \* _passes_quality: what it returned
    up_variants,  \* upgrade_variant_urls: truth_sheet["variants"] before the call
    up_cands,     \* upgrade_variant_urls: image_candidates
    up_pc,        \* "start", "once" after one call, "twice" after a second, "raised"
    up_first,     \* the variants after the first call
    up_second,    \* the variants after the second call
    dd_urls,      \* _dedupe_images: the argument urls
    dd_pc,        \* _dedupe_images: "called", then "returned"
    dd_result,    \* _dedupe_images: the list it returned
    sh_raw,       \* get_hybrid_context: raw_meta, what extract_metadata returned
    sh_pc,        \* "extracted", then "returned" or "raised"
    sh_found,     \* what _extract_product_from_embedded made of each embedded object
    sh_merged,    \* the truth sheet at the end of the merge loop, or raised
    sh_result     \* what get_hybrid_context returned, or raised

metaVars == <<md_scripts, md_json_ld, md_meta, md_pc, md_hybrid>>
pipeVars == <<paths, pc, stage1, stage2, truth_sheet, candidates, response, ai_calls,
              outcome, finished, batch_pc, results>>
imgVars == <<im_doc, im_base_url, im_pc, im_best, im_urls>>
filterVars == <<fl_urls, fl_pc, fl_session, fl_check, fl_probes, fl_dims, fl_max, fl_sem,
               fl_finished, fl_result>>
qualVars == <<q_w, q_h, q_pc, q_pass>>
upgVars == <<up_variants, up_cands, up_pc, up_first, up_second>>
ddVars == <<dd_urls, dd_pc, dd_result>>
sheetVars == <<sh_raw, sh_pc, sh_found, sh_merged, sh_result>>
pureVars == <<upgVars, ddVars, sheetVars>>
restVars == <<imgVars, filterVars, qualVars, pureVars>>
vars == <<metaVars, pipeVars, restVars>>

----------------------------------------------------------------------------
(* Bounds of the model. *)

\* scripts of type application/ld+json in one document
MaxScripts == 2
\* elements of a list-form JSON-LD block
MaxListLen == 2
\* documents of one batch
MaxDocs == 2

----------------------------------------------------------------------------
(* Texts and URLs. *)

Text(scheme, host, path) == [scheme |-> scheme, host |-> host, path |-> path, query |-> <<>>]
Plain(word) == Text("", "", << <<word>> >>)
EmptyText == Text("", "", <<>>)
None == [none |-> TRUE]

\* A host urlparse rejects ("Invalid IPv6 URL"): an opening bracket never closed.
BadHost == "[cdn"

\* urlparse(u) raises ValueError
UrlParseRaises(u) == u.host = BadHost

\* urlparse(u).path, as the set of words of its segments
PathWords(u) == UNION {{u.path[i][j] : j \in 1..Len(u.path[i])} : i \in 1..Len(u.path)}

\* str.lower on one word
Lower(w) ==
    CASE w = "EMAILprompt" -> "emailprompt"
      [] w = "Banner" -> "banner"
      [] w = "PROMO" -> "promo"
      [] w = "C.PNG" -> "c.png"
      [] w = "LARGE" -> "large"
      [] OTHER -> w

\* sub in w, for lower-case words: w is sub or one of the words that contain it
Superstrings ==
    {<<"email_sign_up", "sign_up">>, <<"promotion", "promo">>, <<"bannerad", "banner">>,
     <<"thumbnail", "thumb">>, <<"t_pdp_144_v1", "pdp">>, <<"t_web_pdp_936", "pdp">>,
     <<"t_web_pdp_936", "936">>}
InWord(sub, w) == w = sub \/ <<w, sub>> \in Superstrings

NON_PRODUCT_PATH_SUBSTRINGS == <<"email_sign_up", "EMAILprompt", "sign_up", "banner", "promo">>

\* any(sub.lower() in path for sub in blocklist), path = urlparse(u).path.lower()
IsNonProductPath(u) ==
    \E k \in 1..Len(NON_PRODUCT_PATH_SUBSTRINGS) : \E w \in PathWords(u) :
        InWord(Lower(NON_PRODUCT_PATH_SUBSTRINGS[k]), Lower(w))

\* _drop_non_product_urls: the kept URLs, or the ValueError of urlparse
_drop_non_product_urls(urls) ==
    IF \E i \in 1..Len(urls) : UrlParseRaises(urls[i])
    THEN [raised |-> TRUE, urls |-> <<>>]
    ELSE [raised |-> FALSE, urls |-> SelectSeq(urls, LAMBDA u : ~IsNonProductPath(u))]

----------------------------------------------------------------------------
(* JSON values, as json.loads returns them. *)

JNull == [t |-> "null"]
JStr(s) == [t |-> "str", s |-> s]
JNum(n) == [t |-> "num", n |-> n]
JList(xs) == [t |-> "list", items |-> xs]
JObj(f) == [t |-> "obj", f |-> f]

IsDict(v) == v.t = "obj"
IsList(v) == v.t = "list"
IsStr(v) == v.t = "str"

\* dict.get(k), None when the key is missing
Get(o, k) == IF k \in DOMAIN o.f THEN o.f[k] ELSE JNull

\* Python truthiness of a JSON value
Truthy(v) ==
    CASE v.t = "null" -> FALSE
      [] v.t = "str" -> v.s # EmptyText
      [] v.t = "num" -> v.n # 0
      [] v.t = "list" -> v.items # <<>>
      [] v.t = "obj" -> DOMAIN v.f # {}

\* a or b
Or(a, b) == IF Truthy(a) THEN a ELSE b

----------------------------------------------------------------------------
(* extract_metadata: the JSON-LD harvest. *)

\* The text of one <script type="application/ld+json">: script.string is None,
\* blank, text json.loads rejects, or text that denotes the JSON value val.
RawNone == [kind |-> "none"]
RawBlank == [kind |-> "blank"]
RawBad == [kind |-> "bad"]
RawJson(v) == [kind |-> "json", val |-> v]

\* json.loads(raw): the value, or the exception it raises
JsonLoads(raw) ==
    IF raw.kind = "json"
    THEN [ok |-> TRUE, val |-> raw.val]
    ELSE [ok |-> FALSE, exc |-> "JSONDecodeError"]

\* A handler that forgets json.JSONDecodeError.
HarvestCaughtTypeErrorOnly == {"TypeError"}
\* except (json.JSONDecodeError, TypeError): continue
HarvestCaught == {"JSONDecodeError", "TypeError"}

\* One pass of the loop over the ld+json scripts: output["json_ld"] after it,
\* or the exception that leaves extract_metadata.
HarvestJsonLd(json_ld, raw) ==
    IF raw.kind \in {"none", "blank"}
    THEN [raised |-> FALSE, json_ld |-> json_ld]
    ELSE LET data == JsonLoads(raw) IN
         IF ~data.ok
         THEN [raised |-> data.exc \notin HarvestCaught, json_ld |-> json_ld]
         ELSE IF IsList(data.val)
              THEN [raised |-> FALSE, json_ld |-> json_ld \o data.val.items]
              ELSE [raised |-> FALSE, json_ld |-> Append(json_ld, data.val)]

\* The whole loop over the scripts of a document, from an empty list.
RECURSIVE ExtractJsonLd(_)
ExtractJsonLd(scripts) ==
    IF scripts = <<>>
    THEN [raised |-> FALSE, json_ld |-> <<>>]
    ELSE LET before == ExtractJsonLd(SubSeq(scripts, 1, Len(scripts) - 1)) IN
         IF before.raised
         THEN before
         ELSE HarvestJsonLd(before.json_ld, scripts[Len(scripts)])

----------------------------------------------------------------------------
(* get_hybrid_context: the product selection and the truth sheet. *)

Range(seq) == {seq[i] : i \in 1..Len(seq)}

\* str.strip: the texts of the model carry no surrounding blanks, except the
\* text made of blanks only
BlankText == Plain(" ")
Strip(s) == IF s = BlankText THEN EmptyText ELSE s

\* The keys of the objects of the model, in the order the documents write them
\* (list(dict) yields a dict's keys in that order).
KeyOrder == <<"@type", "name", "description", "category", "brand", "sku", "color", "size",
              "width", "price", "priceCurrency", "highPrice", "offers", "url", "contentUrl",
              "embedUrl", "image", "images", "image_url", "video", "positiveNotes",
              "additionalProperty", "value", "hasVariant", "state", "product", "media",
              "questions", "type", "answers", "title", "src", "props", "pageProps",
              "colorwayImages", "colorDescription", "heroImg", "products">>
KeysOf(o) == SelectSeq(KeyOrder, LAMBDA k : k \in DOMAIN o.f)

\* str(v) of a number or a list
ReprText == Plain("[...]")
StrOf(v) == IF v.t = "num" THEN Plain(ToString(v.n)) ELSE ReprText

\* _to_list: None -> [], str -> [str], list(val) where val iterates (a dict
\* iterates over its keys), [val] where list(val) raises TypeError
_to_list(val) ==
    CASE val.t = "null" -> <<>>
      [] val.t = "str" -> <<val>>
      [] val.t = "list" -> val.items
      [] val.t = "obj" -> [i \in 1..Len(KeysOf(val)) |-> JStr(Plain(KeysOf(val)[i]))]
      [] val.t = "num" -> <<val>>

\* str(v).strip() of any value
StrText(v) == IF IsStr(v) THEN Strip(v.s) ELSE Strip(StrOf(v))

\* float(word): the words that parse as numbers
NumberWords == {<<"99", 99>>, <<"120", 120>>}
IsNumberText(s) == \E p \in NumberWords : s = Plain(p[1])
NumberOfText(s) == (CHOOSE p \in NumberWords : s = Plain(p[1]))[2]

\* _norm_float: the number, or None where float() raises or val is None
_norm_float(val) ==
    CASE val.t = "num" -> val
      [] val.t = "str" /\ IsNumberText(val.s) -> JNum(NumberOfText(val.s))
      [] OTHER -> None

\* x or None
OrNone(x) == IF Truthy(x) THEN x ELSE None

\* obj_type == "Product" or (isinstance(obj_type, list) and "Product" in obj_type)
IsProductType(obj_type) ==
    \/ obj_type = JStr(Plain("Product"))
    \/ IsList(obj_type) /\ JStr(Plain("Product")) \in Range(obj_type.items)

\* script.get("@type", "")
TypeOf(script) == IF "@type" \in DOMAIN script.f THEN script.f["@type"] ELSE JStr(EmptyText)

\* The loop that picks the Product entry: script.get raises AttributeError on
\* an entry that is no dict, unless the loop has left at a Product before it.
SelectProduct(json_ld_list) ==
    LET n == Len(json_ld_list)
        hits == {k \in 1..n : IsDict(json_ld_list[k]) /\ IsProductType(TypeOf(json_ld_list[k]))}
        bad == {k \in 1..n : ~IsDict(json_ld_list[k])}
        first(S) == CHOOSE k \in S : \A m \in S : k <= m
    IN  IF bad # {} /\ (hits = {} \/ first(bad) < first(hits))
        THEN [raised |-> TRUE, json_ld |-> JObj(<<>>)]
        ELSE IF hits = {}
             THEN [raised |-> FALSE, json_ld |-> JObj(<<>>)]
             ELSE [raised |-> FALSE, json_ld |-> json_ld_list[first(hits)]]

\* The text one element of the image list stands for, None when it has none.
ImageTextOf(u) ==
    CASE u.t = "str" -> IF u.s # EmptyText THEN Strip(u.s) ELSE None
      [] u.t = "obj" -> LET raw == Or(Get(u, "url"), Get(u, "contentUrl")) IN
                        IF IsStr(raw) THEN Strip(raw.s) ELSE None
      [] u.t = "null" -> None
      [] OTHER -> Strip(StrOf(u))

\* if u and u not in urls: urls.append(u)
AppendNew(urls, u) ==
    IF u = None \/ u = EmptyText \/ u \in Range(urls) THEN urls ELSE Append(urls, u)

RECURSIVE CollectImages(_, _)
CollectImages(urls, items) ==
    IF items = <<>>
    THEN urls
    ELSE CollectImages(AppendNew(urls, ImageTextOf(Head(items))), Tail(items))

\* truth_sheet["image_urls"] before the non-product filter
JsonLdImages(json_ld) ==
    LET imgs == Or(Get(json_ld, "images"), Get(json_ld, "image"))
        urls == CollectImages(<<>>, _to_list(imgs))
        image == Get(json_ld, "image")
    IN  IF urls = <<>> /\ Truthy(image) /\ IsStr(image) /\ Strip(image.s) # EmptyText
        THEN <<Strip(image.s)>>
        ELSE urls

OgFallbackAlways(urls, meta) ==
    IF "og:image" \in DOMAIN meta /\ Strip(meta["og:image"]) # EmptyText
    THEN Append(urls, Strip(meta["og:image"]))
    ELSE urls

\* The og:image fallback of an empty image list.
OgFallback(urls, meta) ==
    IF urls = <<>> /\ "og:image" \in DOMAIN meta /\ Strip(meta["og:image"]) # EmptyText
    THEN <<Strip(meta["og:image"])>>
    ELSE urls

\* truth_sheet["price"]: the first offer with a parseable price
RECURSIVE FirstPrice(_)
FirstPrice(offer_list) ==
    IF offer_list = <<>>
    THEN None
    ELSE LET offer == Head(offer_list) IN
         IF IsDict(offer) /\ _norm_float(Get(offer, "price")) # None
         THEN LET currency == Get(offer, "priceCurrency") IN
              [price |-> _norm_float(Get(offer, "price")),
               currency |-> IF ~Truthy(currency) THEN Plain("USD")
                            ELSE IF IsStr(currency) THEN Strip(currency.s)
                            ELSE Strip(StrOf(currency)),
               compare_at_price |-> _norm_float(Get(offer, "highPrice"))]
         ELSE FirstPrice(Tail(offer_list))

PriceOf(json_ld) ==
    LET offers == Get(json_ld, "offers") IN
    IF offers = JNull THEN None
    ELSE FirstPrice(IF IsList(offers) THEN offers.items ELSE <<offers>>)

\* One entry of hasVariant that is a dict, as a truth-sheet variant.
VariantOf(v) ==
    LET v_img == Or(Get(v, "image"), Get(v, "image_url"))
        v_url == IF IsStr(v_img) THEN v_img
                 ELSE IF IsDict(v_img) THEN Or(Get(v_img, "url"), Get(v_img, "contentUrl"))
                 ELSE JNull
    IN  [sku |-> OrNone(Get(v, "sku")),
         color |-> OrNone(Get(v, "color")),
         size |-> OrNone(Or(Get(v, "size"), Get(v, "width"))),
         price |-> _norm_float(Get(v, "price")),
         image_url |-> IF Truthy(v_img) /\ IsStr(v_url) THEN Strip(v_url.s) ELSE None]

\* truth_sheet["variants"]: hasVariant, else the single variant of a top-level sku
VariantsOf(json_ld, price, image_urls) ==
    LET has_variant == IF "hasVariant" \in DOMAIN json_ld.f
                       THEN json_ld.f["hasVariant"] ELSE JList(<<>>)
        variant_list == IF IsList(has_variant) THEN has_variant.items ELSE <<has_variant>>
        dicts == SelectSeq(variant_list, IsDict)
        variants == [i \in 1..Len(dicts) |-> VariantOf(dicts[i])]
    IN  IF variants = <<>> /\ Truthy(Get(json_ld, "sku"))
        THEN << [sku |-> Get(json_ld, "sku"),
                 color |-> OrNone(Get(json_ld, "color")),
                 size |-> None,
                 price |-> IF price # None THEN price.price ELSE None,
                 image_url |-> IF image_urls # <<>> THEN image_urls[1] ELSE None] >>
        ELSE variants

\* truth_sheet["brand"]: the name of a Brand object, or a plain string
BrandOf(json_ld) ==
    LET brand_val == Get(json_ld, "brand") IN
    IF IsDict(brand_val) /\ Truthy(Get(brand_val, "name"))
    THEN (IF StrText(Get(brand_val, "name")) = EmptyText THEN None
          ELSE StrText(Get(brand_val, "name")))
    ELSE IF IsStr(brand_val) /\ Strip(brand_val.s) # EmptyText THEN Strip(brand_val.s)
    ELSE None

\* The non-blank texts of a list of values, None and blank ones skipped.
RECURSIVE TextsOf(_)
TextsOf(vals) ==
    IF vals = <<>> THEN <<>>
    ELSE (IF Head(vals) = JNull \/ StrText(Head(vals)) = EmptyText THEN <<>>
          ELSE <<StrText(Head(vals))>>) \o TextsOf(Tail(vals))

\* truth_sheet["key_features"]: positiveNotes, else additionalProperty
KeyFeaturesOf(json_ld) ==
    LET notes == Get(json_ld, "positiveNotes")
        note(x) == IF IsDict(x) /\ "name" \in DOMAIN x.f THEN x.f["name"] ELSE x
        from_notes == IF IsList(notes)
                      THEN TextsOf([i \in 1..Len(notes.items) |->
                                       IF notes.items[i] = JNull THEN JNull
                                       ELSE JStr(StrText(note(notes.items[i])))])
                      ELSE <<>>
        props == Get(json_ld, "additionalProperty")
        add_props == IF ~Truthy(props) THEN <<>>
                     ELSE IF IsList(props) THEN props.items
                     ELSE IF IsDict(props) THEN <<props>> ELSE <<>>
        dicts == SelectSeq(add_props, IsDict)
    IN  IF from_notes # <<>> THEN from_notes
        ELSE TextsOf([i \in 1..Len(dicts) |-> Or(Get(dicts[i], "value"), Get(dicts[i], "name"))])

\* truth_sheet["video_url"]: a string, a VideoObject, or the first of a list
VideoOf(json_ld) ==
    LET video == Get(json_ld, "video")
        vid == IF IsList(video) /\ video.items # <<>> THEN video.items[1] ELSE video
        url == IF IsDict(vid) THEN Or(Get(vid, "embedUrl"), Get(vid, "contentUrl")) ELSE vid
    IN  IF IsStr(url) THEN Strip(url.s) ELSE None

\* truth_sheet["colors"]
ColorsOf(json_ld) == TextsOf(_to_list(Get(json_ld, "color")))

----------------------------------------------------------------------------
(* The length and the resolution score of a URL. *)

\* len(url): the characters of the words and of the separators between them
UrlLen(u) ==
    LET RECURSIVE segLen(_)
        segLen(seg) == IF seg = <<>> THEN 0 ELSE Len(Head(seg)) + 1 + segLen(Tail(seg))
        RECURSIVE pathLen(_)
        pathLen(path) == IF path = <<>> THEN 0 ELSE segLen(Head(path)) + pathLen(Tail(path))
        RECURSIVE queryLen(_)
        queryLen(q) == IF q = <<>> THEN 0
                       ELSE Len(Head(q)[1]) + Len(Head(q)[2]) + 2 + queryLen(Tail(q))
        schemeLen == IF u.scheme = "" THEN 0
                     ELSE IF u.scheme = "//" THEN 2 ELSE Len(u.scheme) + 3
    IN  schemeLen + Len(u.host) + pathLen(u.path) + queryLen(u.query)

\* The words of the whole URL, lower-cased: host, path and query.
AllWords(u) ==
    {Lower(w) : w \in {u.host} \cup PathWords(u)
                      \cup UNION {{u.query[i][1], u.query[i][2]} : i \in 1..Len(u.query)}}

HasAny(u, subs) == \E w \in AllWords(u) : \E sub \in subs : InWord(sub, w)

\* t_<template> path words that end in a dimension below 150
SmallTemplateWords == {"t_pdp_144_v1", "t_web_pdp_936"}
\* query values of one to three digits
ShortNumberWords == {"65", "100"}

\* _resolution_score
_resolution_score(url) ==
    IF url = None \/ url = EmptyText THEN 0
    ELSE (IF HasAny(url, {"thumb", "small", "default"}) THEN -1 ELSE 0)
         + (IF \E w \in AllWords(url) : w \in SmallTemplateWords THEN -2 ELSE 0)
         + (IF \E i \in 1..Len(url.query) :
                  /\ Lower(url.query[i][1]) \in {"wid", "hei", "w", "h", "size"}
                  /\ url.query[i][2] \in ShortNumberWords
            THEN -2 ELSE 0)
         + (IF HasAny(url, {"pdp", "large", "original", "hero", "full"}) THEN 1 ELSE 0)
         + (IF HasAny(url, {"535", "936", "1080", "1440"}) THEN 1 ELSE 0)

----------------------------------------------------------------------------
(* _extract_product_from_embedded and its heuristics.  out is the result
   under construction: colors, variants and image_urls. *)

EmptyObj == JObj(<<>>)
NoneFound == [colors |-> <<>>, variants |-> <<>>, image_urls |-> <<>>]

\* key=lambda u: (_resolution_score(u), len(u)): a's key is above b's
ScoreAbove(a, b) ==
    \/ _resolution_score(a) > _resolution_score(b)
    \/ _resolution_score(a) = _resolution_score(b) /\ UrlLen(a) > UrlLen(b)

\* max(candidates, key=...): the first of the greatest
MaxByScore(cands) ==
    cands[CHOOSE i \in 1..Len(cands) :
              /\ \A k \in 1..Len(cands) : ~ScoreAbove(cands[k], cands[i])
              /\ \A k \in 1..(i - 1) : ScoreAbove(cands[i], cands[k])]

\* The candidate one key of _best_image_url gives: a non-blank string, or the
\* url or contentUrl of a dict
ImageCandidate(val) ==
    IF IsStr(val)
    THEN (IF Strip(val.s) # EmptyText THEN <<Strip(val.s)>> ELSE <<>>)
    ELSE IF IsDict(val) /\ IsStr(Or(Get(val, "url"), Get(val, "contentUrl")))
                        /\ Strip(Or(Get(val, "url"), Get(val, "contentUrl")).s) # EmptyText
         THEN <<Strip(Or(Get(val, "url"), Get(val, "contentUrl")).s)>>
         ELSE <<>>

BestImageKeys == <<"heroImg", "fullSizeImg", "pdpImg", "portraitImg", "squarishImg", "image">>

RECURSIVE ImageCandidates(_, _)
ImageCandidates(cw, i) ==
    IF i > Len(BestImageKeys) THEN <<>>
    ELSE ImageCandidate(Get(cw, BestImageKeys[i])) \o ImageCandidates(cw, i + 1)

PickBest(cands) == IF cands = <<>> THEN None ELSE MaxByScore(cands)

\* _best_image_url
_best_image_url(cw) == PickBest(ImageCandidates(cw, 1))

\* (a or b or c) and str(a or b or c).strip(): the color, "" when there is none
ColorText(named) == IF Truthy(named) THEN StrText(named) ELSE EmptyText

\* The appends of the loop body of _harvest_colorway_images.
AddColorway(cw, out, color, img) ==
    [colors |-> AppendNew(out.colors, color),
     image_urls |-> AppendNew(out.image_urls, img),
     variants |-> Append(out.variants,
                         [sku |-> OrNone(Or(Get(cw, "sku"), Get(cw, "id"))),
                          color |-> IF color = EmptyText THEN None ELSE JStr(color),
                          size |-> None,
                          price |-> _norm_float(Get(cw, "price")),
                          image_url |-> img])]

\* The loop body of _harvest_colorway_images over one colorway.
HarvestColorway(cw, out) ==
    IF ~IsDict(cw) THEN out
    ELSE AddColorway(cw, out,
                     ColorText(Or(Or(Get(cw, "colorDescription"), Get(cw, "color")),
                                  Get(cw, "name"))),
                     _best_image_url(cw))

RECURSIVE HarvestColorways(_, _)
HarvestColorways(items, acc) ==
    IF items = <<>> THEN acc ELSE HarvestColorways(Tail(items), HarvestColorway(Head(items), acc))

HarvestIfList(colorways, out) ==
    IF ~IsList(colorways) THEN out ELSE HarvestColorways(colorways.items, out)

\* _harvest_colorway_images
_harvest_colorway_images(obj, out) ==
    HarvestIfList(Or(Or(Or(Get(obj, "colorwayImages"), Get(obj, "colorways")),
                        Get(obj, "variants")), JList(<<>>)),
                  out)

\* str(q.get("type") or "").upper() == "COLOR"
IsColorQuestion(q) ==
    IsDict(q) /\ Truthy(Get(q, "type"))
              /\ StrText(Get(q, "type")) \in {Plain("COLOR"), Plain("Color"), Plain("color")}

\* color_answers: the answers of the first COLOR question of the list
RECURSIVE ColorAnswers(_)
ColorAnswers(qs) ==
    IF qs = <<>> THEN <<>>
    ELSE IF IsColorQuestion(Head(qs))
         THEN (IF IsList(Get(Head(qs), "answers")) THEN Get(Head(qs), "answers").items ELSE <<>>)
         ELSE ColorAnswers(Tail(qs))

ItemsOf(val) == IF IsList(val) THEN val.items ELSE <<>>

\* (m.get("src") or m.get("url")) and str(...).strip(), None for no dict
SrcText(v) == IF Truthy(v) /\ StrText(v) # EmptyText THEN StrText(v) ELSE None
MediaSrc(media, i) ==
    IF i <= Len(media) /\ IsDict(media[i])
    THEN SrcText(Or(Get(media[i], "src"), Get(media[i], "url")))
    ELSE None

\* The appends of the loop body of _harvest_product_media.
AddAnswer(acc, color, src) ==
    [colors |-> AppendNew(acc.colors, color),
     image_urls |-> AppendNew(acc.image_urls, src),
     variants |-> Append(acc.variants,
                         [sku |-> None,
                          color |-> IF color = EmptyText THEN None ELSE JStr(color),
                          size |-> None, price |-> None, image_url |-> src])]

TitleText(title) == IF IsStr(title) THEN Strip(title.s) ELSE EmptyText

\* for i, ans in enumerate(color_answers)
RECURSIVE HarvestAnswers(_, _, _, _)
HarvestAnswers(media, answers, i, acc) ==
    IF i > Len(answers) THEN acc
    ELSE HarvestAnswers(media, answers, i + 1,
                        IF ~IsDict(answers[i]) THEN acc
                        ELSE AddAnswer(acc, TitleText(Get(answers[i], "title")),
                                       MediaSrc(media, i)))

\* _harvest_product_media: the answers of the first COLOR question, paired by
\* position with product.media
_harvest_product_media(product, out) ==
    IF ~IsList(Or(Get(product, "media"), JList(<<>>))) THEN out
    ELSE HarvestAnswers(ItemsOf(Get(product, "media")),
                        ColorAnswers(ItemsOf(Get(product, "questions"))), 1, out)

_PRODUCT_KEYS == {"colorDescription", "colorwayImages", "color", "variants", "hasVariant",
                  "products", "productGroups", "image", "images"}

\* u if isinstance(u, str) else (u.get("url") or u.get("contentUrl") if dict)
HeuristicText(u) ==
    IF IsStr(u) THEN u
    ELSE IF IsDict(u) THEN Or(Get(u, "url"), Get(u, "contentUrl")) ELSE JNull

\* The append of the image branch of _heuristic_search: the url is compared as
\* written and appended stripped (the texts of the model carry no surrounding
\* blanks).
AppendText(urls, text) ==
    IF Truthy(text) /\ IsStr(text) /\ Strip(text.s) # EmptyText
    THEN AppendNew(urls, Strip(text.s)) ELSE urls

HeuristicImage(urls, u) == AppendText(urls, HeuristicText(u))

\* for u in _to_list(val)
RECURSIVE HeuristicImages(_, _)
HeuristicImages(items, urls) ==
    IF items = <<>> THEN urls
    ELSE HeuristicImages(Tail(items), HeuristicImage(urls, Head(items)))

\* if key not in _PRODUCT_KEYS: continue, ahead of the harvest and of the
\* descent into the value
SearchesKey(key) == key \in _PRODUCT_KEYS

\* The harvest of _heuristic_search at one product key.
HeuristicHarvest(key, val, acc) ==
    IF key \in {"colorwayImages", "colorways", "variants", "hasVariant", "products"}
    THEN (IF IsList(val) /\ val.items # <<>> /\ IsDict(val.items[1])
          THEN _harvest_colorway_images(JObj("colorwayImages" :> val), acc) ELSE acc)
    ELSE IF key \in {"color", "colorDescription"} /\ Truthy(val)
    THEN [acc EXCEPT !.colors = AppendNew(@, StrText(val))]
    ELSE IF key \in {"image", "images"}
    THEN [acc EXCEPT !.image_urls = HeuristicImages(_to_list(val), @)]
    ELSE acc

RECURSIVE _heuristic_search(_, _, _, _)
RECURSIVE SearchItems(_, _, _, _)
RECURSIVE SearchKeys(_, _, _, _, _)

\* for item in val[:10]: _heuristic_search(item, out, depth + 1, max_depth)
SearchItems(items, acc, depth, max_depth) ==
    IF items = <<>> THEN acc
    ELSE SearchItems(Tail(items), _heuristic_search(Head(items), acc, depth, max_depth),
                     depth, max_depth)

\* The descent of _heuristic_search into the value of a key.
SearchBelow(val, acc, depth, max_depth) ==
    IF IsDict(val) THEN _heuristic_search(val, acc, depth + 1, max_depth)
    ELSE IF IsList(val) /\ val.items # <<>> /\ IsDict(val.items[1])
         THEN SearchItems(SubSeq(val.items, 1, IF Len(val.items) < 10 THEN Len(val.items) ELSE 10),
                          acc, depth + 1, max_depth)
         ELSE acc

\* for key, val in obj.items()
SearchKeys(obj, keys, acc, depth, max_depth) ==
    IF keys = <<>> THEN acc
    ELSE SearchKeys(obj, Tail(keys),
                    IF SearchesKey(Head(keys))
                    THEN SearchBelow(obj.f[Head(keys)],
                                     HeuristicHarvest(Head(keys), obj.f[Head(keys)], acc),
                                     depth, max_depth)
                    ELSE acc,
                    depth, max_depth)

\* _heuristic_search
_heuristic_search(obj, out, depth, max_depth) ==
    IF depth >= max_depth \/ ~IsDict(obj) THEN out
    ELSE SearchKeys(obj, KeysOf(obj), out, depth, max_depth)

\* The result of the product.media and colorway heuristics: the heuristic
\* search is for an object they found nothing in.
HeuristicOnlyWhenEmpty(found) ==
    found.colors = <<>> /\ found.variants = <<>> /\ found.image_urls = <<>>

\* product = data.get("product"): harvested when it is a dict
MediaHeuristic(product) ==
    IF IsDict(product) THEN _harvest_product_media(product, NoneFound) ELSE NoneFound

\* props.get("pageProps") or props.get("__N_PAGE_PROPS__") or props
PageProps(props) ==
    IF IsDict(props)
    THEN Or(Or(Get(props, "pageProps"), Get(props, "__N_PAGE_PROPS__")), props)
    ELSE JNull

\* nuxt.get("data", nuxt) if isinstance(nuxt.get("data"), dict) else nuxt
NuxtData(nuxt) ==
    IF IsDict(nuxt) THEN (IF IsDict(Get(nuxt, "data")) THEN Get(nuxt, "data") ELSE nuxt)
    ELSE JNull

\* The colorway harvest of an object that is a dict (an empty one gives nothing).
ColorwayHeuristic(obj, out) ==
    IF Truthy(obj) /\ IsDict(obj) THEN _harvest_colorway_images(obj, out) ELSE out

\* _extract_product_from_embedded up to the heuristic search: product.media,
\* then the colorways of the Next.js page props and of the Nuxt data
SpecificHeuristics(data) ==
    ColorwayHeuristic(NuxtData(Get(data, "data")),
                      ColorwayHeuristic(PageProps(Or(Get(data, "props"), EmptyObj)),
                                        MediaHeuristic(Get(data, "product"))))

\* if not result["colors"] and not result["variants"] and not
\* result["image_urls"]: _heuristic_search(data, result, depth=0, max_depth=4)
GenericHeuristic(data, specific) ==
    IF HeuristicOnlyWhenEmpty(specific) THEN _heuristic_search(data, specific, 0, 4)
    ELSE specific

\* _extract_product_from_embedded: the colors, variants and image_urls found,
\* or raised (AttributeError) when "props" holds a value without .get
_extract_product_from_embedded(data) ==
    IF ~IsDict(Or(Get(data, "props"), EmptyObj)) THEN [raised |-> TRUE] @@ NoneFound
    ELSE [raised |-> FALSE] @@ GenericHeuristic(data, SpecificHeuristics(data))

\* for u in extracted["image_urls"]: if u and u not in ...: append(u)
RECURSIVE AppendAllNew(_, _)
AppendAllNew(urls, new) ==
    IF new = <<>> THEN urls ELSE AppendAllNew(AppendNew(urls, Head(new)), Tail(new))

\* A merge in which the colors and variants of a later object replace those
\* the sheet has.
MergeEmbeddedOverwrites(sheet, extracted) ==
    [sheet EXCEPT
        !.colors = IF extracted.colors # <<>> THEN extracted.colors ELSE @,
        !.variants = IF extracted.variants # <<>> THEN extracted.variants ELSE @,
        !.image_urls = IF @ = <<>> THEN extracted.image_urls
                       ELSE AppendAllNew(@, extracted.image_urls)]

\* The body of the merge loop of get_hybrid_context over one embedded object.
MergeEmbedded(sheet, extracted) ==
    [sheet EXCEPT
        !.colors = IF @ = <<>> THEN extracted.colors ELSE @,
        !.variants = IF @ = <<>> THEN extracted.variants ELSE @,
        !.image_urls = IF @ = <<>> THEN extracted.image_urls
                       ELSE AppendAllNew(@, extracted.image_urls)]

RECURSIVE MergeAllEmbedded(_, _)

\* One turn of the merge loop: an extraction that raises leaves the loop.
MergeNext(sheet, extracted, rest) ==
    IF extracted.raised THEN [raised |-> TRUE, truth_sheet |-> sheet]
    ELSE MergeAllEmbedded(MergeEmbedded(sheet, extracted), rest)

\* for emb in raw_meta.get("embedded_json") or []: the truth sheet after the
\* loop, or raised when an extraction raises
MergeAllEmbedded(sheet, embedded_json) ==
    IF embedded_json = <<>> THEN [raised |-> FALSE, truth_sheet |-> sheet]
    ELSE MergeNext(sheet, _extract_product_from_embedded(Head(embedded_json)),
                   Tail(embedded_json))

----------------------------------------------------------------------------
(* get_hybrid_context: the truth sheet. *)

NoResult == [raised |-> FALSE, none |-> TRUE]

\* get_hybrid_context from the metadata up to the merge loop: the truth sheet
\* built of the JSON-LD Product and the og:image, or raised
SheetBeforeMerge(raw_meta) ==
    LET picked == SelectProduct(raw_meta.json_ld)
        json_ld == picked.json_ld
        dropped == _drop_non_product_urls(JsonLdImages(json_ld))
        image_urls == OgFallback(dropped.urls, raw_meta.meta)
        price == PriceOf(json_ld)
    IN  IF picked.raised \/ dropped.raised
        THEN [raised |-> TRUE]
        ELSE [raised |-> FALSE,
              truth_sheet |-> [name |-> OrNone(Get(json_ld, "name")),
                               price |-> price,
                               description |-> OrNone(Get(json_ld, "description")),
                               key_features |-> KeyFeaturesOf(json_ld),
                               image_urls |-> image_urls,
                               video_url |-> VideoOf(json_ld),
                               category |-> OrNone(Get(json_ld, "category")),
                               brand |-> BrandOf(json_ld),
                               colors |-> ColorsOf(json_ld),
                               variants |-> VariantsOf(json_ld, price, image_urls)]]

MergeInto(base, embedded_json) ==
    IF base.raised THEN [raised |-> TRUE]
    ELSE MergeAllEmbedded(base.truth_sheet, embedded_json)

\* get_hybrid_context up to the end of the merge loop
SheetAfterMerge(raw_meta) == MergeInto(SheetBeforeMerge(raw_meta), raw_meta.embedded_json)

\* return {"truth_sheet": ..., "product_json_ld": json_ld_list}
ContextOfSheet(sheet, final, json_ld_list) ==
    IF final.raised THEN [raised |-> TRUE]
    ELSE [raised |-> FALSE,
          truth_sheet |-> [sheet EXCEPT !.image_urls = final.urls],
          product_json_ld |-> json_ld_list]

\* The last _drop_non_product_urls and the return.
FinalDrop(merged, json_ld_list) ==
    IF merged.raised THEN [raised |-> TRUE]
    ELSE ContextOfSheet(merged.truth_sheet,
                        _drop_non_product_urls(merged.truth_sheet.image_urls), json_ld_list)

\* get_hybrid_context from the metadata on: the truth sheet and the JSON-LD
\* list it returns, or raised when an exception leaves it.
BuildContext(raw_meta) == FinalDrop(SheetAfterMerge(raw_meta), raw_meta.json_ld)

----------------------------------------------------------------------------
(* Documents, and stage 1 and stage 2 of the pipeline on a document. *)

\* output["meta"] of a document without <meta> tags
NoMeta == <<>>

\* A descriptor of a srcset entry, as the runs of digits re.findall(r'\d+')
\* finds in it: "1200w" is <<1200>>, "1.5x" is <<1, 5>>, "x" is <<>>.
Descriptor(runs) == [given |-> TRUE, runs |-> runs]
NoDescriptor == [given |-> FALSE, runs |-> <<>>]

\* One comma-separated entry of a srcset, split on blanks: its first part (None
\* for an entry made of blanks) and its second part.
SrcsetEntry(url, descriptor) == [url |-> url, descriptor |-> descriptor]
BlankEntry == SrcsetEntry(None, NoDescriptor)

\* An <img> tag: its src and its srcset, None for an attribute it has not; a
\* srcset is the sequence of its entries (the empty string has none).
ImgTag(src, srcset) == [src |-> src, srcset |-> srcset]

\* A document: whether the file exists, its ld+json scripts, its meta map, its
\* <base href> (None when it has none) and the src attributes of its <img> tags.
Doc(exists, scripts, meta, base, imgs) ==
    [exists |-> exists, scripts |-> scripts, meta |-> meta, base |-> base,
     imgs |-> [i \in 1..Len(imgs) |-> ImgTag(imgs[i], None)]]

\* A document of <img> tags that have a srcset.
DocOfTags(base, tags) ==
    [exists |-> TRUE, scripts |-> <<>>, meta |-> NoMeta, base |-> base, imgs |-> tags]

\* get_hybrid_context(html_path): read_text raises FileNotFoundError on a
\* missing file.
get_hybrid_context(doc) ==
    IF ~doc.exists
    THEN [raised |-> TRUE]
    ELSE LET harvest == ExtractJsonLd(doc.scripts) IN
         IF harvest.raised
         THEN [raised |-> TRUE]
         ELSE BuildContext([json_ld |-> harvest.json_ld, meta |-> doc.meta, embedded_json |-> <<>>])

\* urljoin(base, url) for a relative url and a base written as a directory
\* (ending in "/"): the base's scheme and host, the url's path under the base's
Urljoin(base, url) ==
    [scheme |-> base.scheme, host |-> base.host, path |-> base.path \o url.path,
     query |-> url.query]

IsAbsolute(u) == u.scheme \in {"http", "https", "//"}

\* _normalize_url
_normalize_url(url, base) ==
    IF Strip(url) = EmptyText THEN EmptyText
    ELSE IF base # None /\ ~IsAbsolute(Strip(url)) THEN Urljoin(base, Strip(url))
    ELSE IF Strip(url).scheme = "//" THEN [Strip(url) EXCEPT !.scheme = "https"]
    ELSE Strip(url)

\* add(url_candidate) of extract_image_urls, on the list built so far: the new
\* list, or raised when urlparse rejects the candidate
AddCandidate(acc, url, base) ==
    LET c == _normalize_url(url, base) IN
    IF acc.raised \/ ~IsAbsolute(c) THEN acc
    ELSE IF c \in Range(acc.urls) THEN acc
    ELSE IF UrlParseRaises(c) THEN [raised |-> TRUE, urls |-> acc.urls]
    ELSE IF c.path = <<>> THEN acc
    ELSE [raised |-> FALSE, urls |-> Append(acc.urls, c)]

RECURSIVE AddAll(_, _, _)
AddAll(acc, urls, base) ==
    IF urls = <<>> THEN acc ELSE AddAll(AddCandidate(acc, Head(urls), base), Tail(urls), base)

\* The image and images values of the JSON-LD items of one script, in the
\* order extract_image_urls adds them (a "url" of the model's documents is a
\* string wherever an image object has one).
LdImageTexts(val) ==
    LET texts(v) ==
            CASE v.t = "str" -> <<v.s>>
              [] v.t = "obj" /\ "url" \in DOMAIN v.f /\ IsStr(v.f["url"]) -> <<v.f["url"].s>>
              [] OTHER -> <<>>
        RECURSIVE flat(_)
        flat(xs) == IF xs = <<>> THEN <<>> ELSE texts(Head(xs)) \o flat(Tail(xs))
        of(key, item) ==
            LET v == Get(item, key) IN
            IF IsList(v) THEN flat(v.items) ELSE texts(v)
        RECURSIVE items(_)
        items(xs) ==
            IF xs = <<>> THEN <<>>
            ELSE of("image", Head(xs)) \o of("images", Head(xs)) \o items(Tail(xs))
    IN  IF IsList(val) THEN items(SelectSeq(val.items, IsDict))
        ELSE IF IsDict(val) THEN items(<<val>>)
        ELSE <<>>

RECURSIVE ScriptImageTexts(_)
ScriptImageTexts(scripts) ==
    IF scripts = <<>> THEN <<>>
    ELSE (IF Head(scripts).kind = "json" THEN LdImageTexts(Head(scripts).val) ELSE <<>>)
         \o ScriptImageTexts(Tail(scripts))

\* The resolution markers _dedupe_images strips, matched case-insensitively
\* after a "-" or "_", that is from the second word of a segment on.
ResolutionMarkers == {"100x100", "thumb", "small", "medium", "max", "large", "original"}

DedupeIdentity(u) ==
    LET strip(seg) ==
            LET keep == {j \in 1..Len(seg) : j = 1 \/ Lower(seg[j]) \notin ResolutionMarkers}
                RECURSIVE take(_)
                take(j) == IF j > Len(seg) THEN <<>>
                           ELSE (IF j \in keep THEN <<seg[j]>> ELSE <<>>) \o take(j + 1)
            IN  take(1)
    IN  [scheme |-> u.scheme, host |-> u.host,
         path |-> [i \in 1..Len(u.path) |-> strip(u.path[i])], query |-> <<>>]

\* A dedupe that keeps the first url of each identity, whatever its length.
DedupeKeepsFirst(urls) ==
    LET RECURSIVE walk(_)
        walk(i) == IF i > Len(urls) THEN <<>>
                   ELSE (IF \A j \in 1..(i - 1) : DedupeIdentity(urls[j]) # DedupeIdentity(urls[i])
                         THEN <<urls[i]>> ELSE <<>>) \o walk(i + 1)
    IN  walk(1)

\* _dedupe_images: one URL per identity, the longest (the first of the longest),
\* the identities in order of first appearance
_dedupe_images(urls) ==
    LET firstOf(i) == \A j \in 1..(i - 1) : DedupeIdentity(urls[j]) # DedupeIdentity(urls[i])
        group(i) == {j \in 1..Len(urls) : DedupeIdentity(urls[j]) = DedupeIdentity(urls[i])}
        best(i) == CHOOSE j \in group(i) :
                       \A k \in group(i) :
                           \/ UrlLen(urls[j]) > UrlLen(urls[k])
                           \/ UrlLen(urls[j]) = UrlLen(urls[k]) /\ j <= k
        RECURSIVE walk(_)
        walk(i) == IF i > Len(urls) THEN <<>>
                   ELSE (IF firstOf(i) THEN <<urls[best(i)]>> ELSE <<>>) \o walk(i + 1)
    IN  walk(1)

\* score of one srcset entry: int(nums[0]) of its descriptor, 0 without digits
SrcsetScore(entry) == IF entry.descriptor.runs = <<>> THEN 0 ELSE entry.descriptor.runs[1]

\* _parse_best_from_srcset: the url of the first entry of the highest score
\* (sorted is stable, reverse=True keeps the order of equal scores), None for
\* no srcset, an empty one, or one without entry
_parse_best_from_srcset(srcset_str) ==
    IF srcset_str = None THEN None
    ELSE LET entries == SelectSeq(srcset_str, LAMBDA e : e.url # None /\ e.url # EmptyText)
             best == CHOOSE i \in 1..Len(entries) :
                         \A j \in 1..Len(entries) :
                             \/ SrcsetScore(entries[i]) > SrcsetScore(entries[j])
                             \/ SrcsetScore(entries[i]) = SrcsetScore(entries[j]) /\ i <= j
         IN  IF entries = <<>> THEN None ELSE entries[best].url

\* What one <img> hands to add(): its src, then the best url of its srcset.
ImgTexts(img) ==
    (IF img.src # None /\ img.src # EmptyText THEN <<img.src>> ELSE <<>>)
    \o (IF _parse_best_from_srcset(img.srcset) \notin {None, EmptyText}
        THEN <<_parse_best_from_srcset(img.srcset)>> ELSE <<>>)

RECURSIVE AllImgTexts(_)
AllImgTexts(imgs) ==
    IF imgs = <<>> THEN <<>> ELSE ImgTexts(Head(imgs)) \o AllImgTexts(Tail(imgs))

\* extract_image_urls: the <img> tags, then the og:image meta, then the JSON-LD
\* image fields; read_text raises on a missing file
extract_image_urls(doc, base_url) ==
    IF ~doc.exists THEN [raised |-> TRUE, urls |-> <<>>]
    ELSE LET base == IF base_url \notin {None, EmptyText} THEN base_url ELSE doc.base
             metas == IF "og:image" \in DOMAIN doc.meta THEN <<doc.meta["og:image"]>> ELSE <<>>
             all == AddAll([raised |-> FALSE, urls |-> <<>>],
                           AllImgTexts(doc.imgs) \o metas \o ScriptImageTexts(doc.scripts),
                           base)
         IN  IF all.raised THEN all ELSE [raised |-> FALSE, urls |-> _dedupe_images(all.urls)]

\* get_filtered_media up to the candidates (the dimension probes choose the
\* verified images among them)
get_filtered_media(doc) ==
    LET found == extract_image_urls(doc, None) IN
    IF found.raised THEN [raised |-> TRUE]
    ELSE LET kept == _drop_non_product_urls(found.urls) IN
         IF kept.raised THEN [raised |-> TRUE]
         ELSE [raised |-> FALSE, candidates |-> kept.urls]

----------------------------------------------------------------------------
(* upgrade_variant_urls. *)

\* The words that carry a UUID, with the UUID (in lower case) they carry.
UuidWords == {<<"u_9DDF04C7", "9ddf04c7">>, <<"9ddf04c7", "9ddf04c7">>}
HasUuid(w) == \E p \in UuidWords : p[1] = w
UuidOf(w) == (CHOOSE p \in UuidWords : p[1] = w)[2]

\* _image_identity: the first UUID of the path, else the last path segment in
\* lower case, None without either; raised when urlparse rejects the URL
_image_identity(url) ==
    IF url = None \/ Strip(url) = EmptyText THEN [raised |-> FALSE, ident |-> None]
    ELSE IF UrlParseRaises(url) THEN [raised |-> TRUE, ident |-> None]
    ELSE LET flat == [i \in 1..Len(url.path) |-> SelectSeq(url.path[i], HasUuid)]
             segs == {i \in 1..Len(url.path) : flat[i] # <<>>}
             last == url.path[Len(url.path)]
         IN  IF segs # {}
             THEN [raised |-> FALSE,
                   ident |-> [key |-> <<UuidOf(flat[CHOOSE i \in segs : \A j \in segs : i <= j][1])>>]]
             ELSE IF url.path = <<>> THEN [raised |-> FALSE, ident |-> None]
             ELSE [raised |-> FALSE, ident |-> [key |-> [j \in 1..Len(last) |-> Lower(last[j])]]]

BestCandidateLast(cands, ident) ==
    LET group == {i \in 1..Len(cands) : _image_identity(cands[i]).ident = ident}
        best == CHOOSE i \in group :
                    \A k \in group :
                        \/ _resolution_score(cands[i]) > _resolution_score(cands[k])
                        \/ _resolution_score(cands[i]) = _resolution_score(cands[k]) /\ i >= k
    IN  IF group = {} THEN None ELSE cands[best]

\* id_to_best[ident]: the first candidate of that identity with the highest score
BestCandidate(cands, ident) ==
    LET group == {i \in 1..Len(cands) : _image_identity(cands[i]).ident = ident}
        best == CHOOSE i \in group :
                    \A k \in group :
                        \/ _resolution_score(cands[i]) > _resolution_score(cands[k])
                        \/ _resolution_score(cands[i]) = _resolution_score(cands[k]) /\ i <= k
    IN  IF group = {} THEN None ELSE cands[best]

\* A loop body that takes the first candidate better than the current url.
UpgradeVariantStepwise(var, cands) ==
    LET current == var.image_url
        found == _image_identity(current)
        better == {i \in 1..Len(cands) :
                      /\ _image_identity(cands[i]).ident = found.ident
                      /\ _resolution_score(cands[i]) > _resolution_score(current)}
    IN  IF current = None \/ current = EmptyText \/ found.raised \/ found.ident = None
           \/ better = {}
        THEN var
        ELSE [var EXCEPT !.image_url = cands[CHOOSE i \in better : \A j \in better : i <= j]]

\* The loop body over one variant.
UpgradeVariant(var, cands) ==
    LET current == var.image_url
        found == _image_identity(current)
        best == BestCandidate(cands, found.ident)
    IN  IF current = None \/ current = EmptyText \/ found.raised \/ found.ident = None
           \/ best = None
        THEN var
        ELSE IF _resolution_score(best) > _resolution_score(current)
             THEN [var EXCEPT !.image_url = best]
             ELSE var

\* upgrade_variant_urls: the truth sheet after it, or raised when urlparse
\* rejects a candidate or a variant's image_url
upgrade_variant_urls(sheet, image_candidates) ==
    IF sheet.variants = <<>> \/ image_candidates = <<>>
    THEN [raised |-> FALSE, truth_sheet |-> sheet]
    ELSE IF \/ \E i \in 1..Len(image_candidates) : _image_identity(image_candidates[i]).raised
            \/ \E i \in 1..Len(sheet.variants) :
                   /\ sheet.variants[i].image_url \notin {None, EmptyText}
                   /\ _image_identity(sheet.variants[i].image_url).raised
         THEN [raised |-> TRUE, truth_sheet |-> sheet]
         ELSE [raised |-> FALSE,
               truth_sheet |->
                   [sheet EXCEPT !.variants =
                       [i \in 1..Len(sheet.variants) |->
                           UpgradeVariant(sheet.variants[i], image_candidates)]]]

----------------------------------------------------------------------------
(* Products, and run_pipeline after the reasoning call. *)

DEFAULT_PRODUCT == [name |-> "Unknown Product", image_urls |-> <<>>, variants |-> <<>>]

Returned(product) == [kind |-> "returned", product |-> product]
Raised(exc) == [kind |-> "raised", exc |-> exc]
Pending == [kind |-> "pending"]

\* normalize_product_image_urls: the variant backfill of an empty image list,
\* then the non-product filter
normalize_product_image_urls(product) ==
    LET RECURSIVE fill(_, _)
        fill(urls, vs) ==
            IF vs = <<>> THEN urls ELSE fill(AppendNew(urls, Head(vs).image_url), Tail(vs))
        urls == IF product.image_urls = <<>>
                THEN fill(<<>>, product.variants) ELSE product.image_urls
        kept == _drop_non_product_urls(urls)
    IN  IF kept.raised THEN Raised("ValueError")
        ELSE Returned([product EXCEPT !.image_urls = kept.urls])

\* What ai.responses does: it raises (pydantic's ValidationError, or another
\* Exception such as a transport or quota error), or it returns
\* response.output_parsed, a Product or None.
AiRaised(exc) == [kind |-> "raise", exc |-> exc]
AiNone == [kind |-> "none"]
AiParsed(product) == [kind |-> "parsed", product |-> product]

\* The classes derived from Exception among those the model raises.
ExceptionClasses == {"ValidationError", "APIConnectionError", "RateLimitError",
                     "ValueError", "AttributeError"}

\* A handler with the first except clause only.
PipelineCatchesValidationOnly(exc) == exc = "ValidationError"
\* except ValidationError ... except Exception ... around the reasoning call
PipelineCatches(exc) == exc = "ValidationError" \/ exc \in ExceptionClasses

\* A backfill that copies the whole truth-sheet list.
BackfillAll(resp, sheet) ==
    IF resp.image_urls = <<>> /\ sheet.image_urls # <<>>
    THEN [resp EXCEPT !.image_urls = sheet.image_urls]
    ELSE resp
\* The image backfill on the returned Product.
Backfill(resp, sheet) ==
    IF resp.image_urls = <<>> /\ sheet.image_urls # <<>>
    THEN [resp EXCEPT !.image_urls = SubSeq(sheet.image_urls, 1, 1)]
    ELSE resp

\* run_pipeline from the end of the reasoning call on: what it returns or raises.
AfterAi(r, sheet) ==
    CASE r.kind = "raise" ->
            IF PipelineCatches(r.exc) THEN Returned(DEFAULT_PRODUCT) ELSE Raised(r.exc)
      [] r.kind = "none" -> Raised("AttributeError")
      [] r.kind = "parsed" -> Returned(Backfill(r.product, sheet))

\* A run_pipeline that lets the exception of a branch through.
AfterStageFailureUncaught == Raised("Exception")
\* run_pipeline when asyncio.gather has raised the exception of a branch
AfterStageFailure == Returned(DEFAULT_PRODUCT)

\* asyncio.gather(*tasks, return_exceptions=True)
ReturnExceptions == TRUE

\* A gather that hands the results over in the order the tasks ended.
GatherSlotsByCompletion(outs, order) == [k \in 1..Len(order) |-> outs[order[k]]]
\* The list gather returns: one slot per awaitable, in the order they were passed.
GatherSlots(outs, order) == [i \in 1..Len(outs) |-> outs[i]]

----------------------------------------------------------------------------
(* The documents and the reasoning-call outcomes of the model. *)

GoodUrl == Text("https", "cdn", << <<"img">>, <<"shoe">> >>)
SideUrl == Text("https", "cdn", << <<"img">>, <<"shoe", "side">> >>)
BannerUrl == Text("https", "cdn", << <<"promo">>, <<"Banner">> >>)
ThumbUrl == Text("https", "cdn", << <<"thumb">>, <<"u_9DDF04C7">> >>)
LargeUrl == Text("https", "cdn", << <<"t_web_pdp_936">>, <<"9ddf04c7">> >>)
BadUrl == Text("https", BadHost, << <<"img">>, <<"shoe">> >>)

ProductType == "@type" :> JStr(Plain("Product"))

\* Every element a JSON-LD list of the model may hold.
LdProduct == JObj(ProductType @@ "name" :> JStr(Plain("Shoe")) @@ "image" :> JStr(GoodUrl))
LdOrganization == JObj("@type" :> JStr(Plain("Organization")))
LdText == JStr(Plain("text"))
\* a second Product, typed by a list, with a brand, an offer, a sku, a colour
\* and a banner for its image
LdBoot ==
    JObj("@type" :> JList(<<JStr(Plain("Thing")), JStr(Plain("Product"))>>)
         @@ "name" :> JStr(Plain("Boot")) @@ "brand" :> JObj("name" :> JStr(Plain("Acme")))
         @@ "offers" :> JObj("price" :> JStr(Plain("99")) @@ "priceCurrency" :> JStr(Plain("USD")))
         @@ "sku" :> JStr(Plain("B7")) @@ "color" :> JStr(Plain("Tan"))
         @@ "image" :> JStr(BannerUrl))

\* What the og:image <meta> tag of a document may hold: there is none, or its
\* content is a product image, a banner, or blank.
MetaMaps == {NoMeta, "og:image" :> GoodUrl, "og:image" :> BannerUrl, "og:image" :> EmptyText}
LdElements == {LdProduct, LdOrganization, JList(<<LdProduct>>)}

\* The scripts of the model: no string, blank, unparseable, a single value,
\* or a list of up to MaxListLen elements.
RawScripts ==
    {RawNone, RawBlank, RawBad}
    \cup {RawJson(v) : v \in {LdProduct, LdOrganization, LdText, LdBoot}}
    \cup {RawJson(JList(xs)) : xs \in UNION {[1..n -> LdElements] : n \in 0..MaxListLen}}

DocMissing == Doc(FALSE, <<>>, NoMeta, None, <<>>)
\* a Product with two images and a thumbnail variant the candidates upgrade
DocShoe ==
    Doc(TRUE,
        <<RawJson(JObj(ProductType @@ "name" :> JStr(Plain("Shoe"))
                       @@ "image" :> JList(<<JStr(GoodUrl), JStr(SideUrl)>>)
                       @@ "hasVariant" :> JList(<<JObj("sku" :> JStr(Plain("S1"))
                                                       @@ "image" :> JStr(ThumbUrl))>>)))>>,
        NoMeta, None, <<LargeUrl, GoodUrl>>)
\* a Product without any image, on a page without images
DocBare == Doc(TRUE, <<RawJson(JObj(ProductType @@ "name" :> JStr(Plain("Shoe"))))>>,
               NoMeta, None, <<>>)
\* a JSON-LD block that holds a string: stage 1 raises, stage 2 does not
DocTextLd == Doc(TRUE, <<RawJson(LdText)>>, NoMeta, None, <<GoodUrl>>)
\* an <img src> urlparse rejects: stage 2 raises, stage 1 does not
DocBadImg == Doc(TRUE, <<RawJson(LdProduct)>>, NoMeta, None, <<BadUrl>>)
\* a variant image urlparse rejects: both stages pass, the upgrade raises
DocBadVariant ==
    Doc(TRUE,
        <<RawJson(JObj(ProductType
                       @@ "hasVariant" :> JList(<<JObj("image" :> JStr(BadUrl))>>)))>>,
        NoMeta, None, <<GoodUrl>>)
\* The files of the data directory, by path; any other path names no file.
HtmlPaths == {"missing.html", "shoe.html", "bare.html", "text_ld.html", "bad_img.html",
              "bad_variant.html"}

\* Path(html_path), as the document read_text would read
Document(path) ==
    CASE path = "shoe.html" -> DocShoe
      [] path = "bare.html" -> DocBare
      [] path = "text_ld.html" -> DocTextLd
      [] path = "bad_img.html" -> DocBadImg
      [] path = "bad_variant.html" -> DocBadVariant
      [] OTHER -> DocMissing

AiVariant == [sku |-> "S1", image_url |-> SideUrl]
AiProducts ==
    [name : {"First"},
     image_urls : {<<>>, <<BannerUrl, GoodUrl>>},
     variants : {<<>>, <<AiVariant>>}]

AiOutcomes ==
    {AiRaised("ValidationError"), AiRaised("RateLimitError"), AiNone}
    \cup {AiParsed(p) : p \in AiProducts}

----------------------------------------------------------------------------
(* run_all_pipelines and its run_pipeline tasks. *)

Tasks == 1..Len(paths)

PipeIdle ==
    /\ paths = <<>> /\ pc = <<>> /\ stage1 = <<>> /\ stage2 = <<>>
    /\ truth_sheet = <<>> /\ candidates = <<>> /\ response = <<>> /\ outcome = <<>>
    /\ finished = <<>> /\ batch_pc = "idle" /\ results = <<>> /\ ai_calls = <<>>

MetaIdle ==
    /\ md_scripts = <<>> /\ md_json_ld = <<>> /\ md_meta = NoMeta
    /\ md_pc = "idle" /\ md_hybrid = NoResult

ImgIdle ==
    /\ im_doc = None /\ im_base_url = None /\ im_pc = "idle" /\ im_best = <<>> /\ im_urls = <<>>

FilterIdle ==
    /\ fl_urls = <<>> /\ fl_pc = "idle" /\ fl_session = "none" /\ fl_check = <<>>
    /\ fl_probes = <<>> /\ fl_dims = <<>> /\ fl_max = 0 /\ fl_sem = 0 /\ fl_result = <<>>
    /\ fl_finished = <<>>

QualIdle == q_w = 0 /\ q_h = 0 /\ q_pc = "idle" /\ q_pass = FALSE

UpgIdle ==
    /\ up_variants = <<>> /\ up_cands = <<>> /\ up_pc = "idle"
    /\ up_first = <<>> /\ up_second = <<>>

DedupeIdle == dd_urls = <<>> /\ dd_pc = "idle" /\ dd_result = <<>>

SheetIdle ==
    /\ sh_raw = None /\ sh_pc = "idle" /\ sh_found = <<>> /\ sh_merged = None
    /\ sh_result = None

PureIdle == UpgIdle /\ DedupeIdle /\ SheetIdle

RestIdle == ImgIdle /\ FilterIdle /\ QualIdle /\ PureIdle

PipeInit ==
    /\ paths \in UNION {[1..n -> HtmlPaths] : n \in 0..MaxDocs}
    /\ pc = [i \in Tasks |-> "created"]
    /\ stage1 = [i \in Tasks |-> "idle"]
    /\ stage2 = [i \in Tasks |-> "idle"]
    /\ truth_sheet = [i \in Tasks |-> None]
    /\ candidates = [i \in Tasks |-> <<>>]
    /\ response = [i \in Tasks |-> Pending]
    /\ ai_calls = [i \in Tasks |-> 0]
    /\ outcome = [i \in Tasks |-> Pending]
    /\ finished = <<>>
    /\ batch_pc = "running"
    /\ results = <<>>

\* The task ends: gather stores what it returned or raised; without
\* return_exceptions the first exception of a task leaves gather at once.
Finish(i, out) ==
    /\ outcome' = [outcome EXCEPT ![i] = out]
    /\ pc' = [pc EXCEPT ![i] = "done"]
    /\ finished' = Append(finished, i)
    /\ batch_pc' = IF ~ReturnExceptions /\ out.kind = "raised" /\ batch_pc = "running"
                   THEN "raised" ELSE batch_pc

CallsIssuedAgain(n) == n + 2

\* await ai.responses(...): one call, main.py has no retry around it
CallsIssued(n) == n + 1

SheetPopped(r, sheet) ==
    IF r.kind = "parsed" /\ r.product.image_urls = <<>> /\ sheet.image_urls # <<>>
    THEN [sheet EXCEPT !.image_urls = Tail(@)]
    ELSE sheet

\* The truth sheet once run_pipeline has read it for the backfill:
\* truth_sheet["image_urls"][:1] is a new list, the sheet is as it was.
SheetAfterBackfill(r, sheet) == sheet

\* run_pipeline up to its first await: both branches are started.
StartPipeline(i) ==
    /\ pc[i] = "created"
    /\ pc' = [pc EXCEPT ![i] = "gather"]
    /\ stage1' = [stage1 EXCEPT ![i] = "running"]
    /\ stage2' = [stage2 EXCEPT ![i] = "running"]
    /\ UNCHANGED <<metaVars, restVars, ai_calls, paths, truth_sheet, candidates, response, outcome, finished,
                   batch_pc, results>>

\* asyncio.to_thread(get_hybrid_context, path) ends.
Stage1Done(i) ==
    /\ pc[i] = "gather" /\ stage1[i] = "running"
    /\ LET context == get_hybrid_context(Document(paths[i])) IN
       /\ stage1' = [stage1 EXCEPT ![i] = IF context.raised THEN "raised" ELSE "ok"]
       /\ truth_sheet' = [truth_sheet EXCEPT
                             ![i] = IF context.raised THEN None ELSE context.truth_sheet]
    /\ UNCHANGED <<metaVars, restVars, ai_calls, paths, pc, stage2, candidates, response, outcome, finished,
                   batch_pc, results>>

\* get_filtered_media(path) ends.
Stage2Done(i) ==
    /\ pc[i] = "gather" /\ stage2[i] = "running"
    /\ LET media == get_filtered_media(Document(paths[i])) IN
       /\ stage2' = [stage2 EXCEPT ![i] = IF media.raised THEN "raised" ELSE "ok"]
       /\ candidates' = [candidates EXCEPT
                            ![i] = IF media.raised THEN <<>> ELSE media.candidates]
    /\ UNCHANGED <<metaVars, restVars, ai_calls, paths, pc, stage1, truth_sheet, response, outcome, finished,
                   batch_pc, results>>

\* The inner gather raises the exception of a branch: except Exception.
GatherFailed(i) ==
    /\ pc[i] = "gather"
    /\ stage1[i] = "raised" \/ stage2[i] = "raised"
    /\ Finish(i, AfterStageFailure)
    /\ UNCHANGED <<metaVars, restVars, ai_calls, paths, stage1, stage2, truth_sheet, candidates, response, results>>

\* Both branches returned: the resolution upgrade, then the reasoning call is
\* issued; an exception of the upgrade leaves run_pipeline.
GatherDone(i) ==
    /\ pc[i] = "gather"
    /\ stage1[i] = "ok" /\ stage2[i] = "ok"
    /\ LET up == upgrade_variant_urls(truth_sheet[i], candidates[i]) IN
       IF up.raised
       THEN /\ Finish(i, Raised("ValueError"))
            /\ UNCHANGED <<truth_sheet, ai_calls>>
       ELSE /\ truth_sheet' = [truth_sheet EXCEPT ![i] = up.truth_sheet]
            /\ ai_calls' = [ai_calls EXCEPT ![i] = CallsIssued(@)]
            /\ pc' = [pc EXCEPT ![i] = "ai"]
            /\ UNCHANGED <<outcome, finished, batch_pc>>
    /\ UNCHANGED <<metaVars, restVars, paths, stage1, stage2, candidates, response, results>>

\* The reasoning call ends, and run_pipeline with it: the backfill reads the
\* truth sheet.
AiDone(i) ==
    /\ pc[i] = "ai"
    /\ \E r \in AiOutcomes :
          /\ response' = [response EXCEPT ![i] = r]
          /\ truth_sheet' = [truth_sheet EXCEPT ![i] = SheetAfterBackfill(r, @)]
          /\ Finish(i, AfterAi(r, truth_sheet[i]))
    /\ UNCHANGED <<metaVars, restVars, ai_calls, paths, stage1, stage2, candidates, results>>

\* The outer gather returns, every task having ended: slot i holds what task
\* i returned, or the exception it raised.
BatchReturn ==
    /\ batch_pc = "running"
    /\ \A i \in Tasks : pc[i] = "done"
    /\ results' = GatherSlots(outcome, finished)
    /\ batch_pc' = "returned"
    /\ UNCHANGED <<metaVars, restVars, ai_calls, paths, pc, stage1, stage2, truth_sheet, candidates, response,
                   outcome, finished>>

TaskStep(i) ==
    \/ StartPipeline(i)
    \/ Stage1Done(i)
    \/ Stage2Done(i)
    \/ GatherFailed(i)
    \/ GatherDone(i)
    \/ AiDone(i)

Init == PipeInit /\ MetaIdle /\ RestIdle

Next ==
    \/ \E i \in Tasks : StartPipeline(i)
    \/ \E i \in Tasks : Stage1Done(i)
    \/ \E i \in Tasks : Stage2Done(i)
    \/ \E i \in Tasks : GatherFailed(i)
    \/ \E i \in Tasks : GatherDone(i)
    \/ \E i \in Tasks : AiDone(i)
    \/ BatchReturn

Spec == Init /\ [][Next]_vars

----------------------------------------------------------------------------
(* extract_metadata and get_hybrid_context on one document, script by script. *)

MetaInit ==
    /\ md_scripts = <<>> /\ md_json_ld = <<>> /\ md_meta = NoMeta
    /\ md_pc = "harvest" /\ md_hybrid = NoResult

\* find_all yields the next ld+json script and the loop body runs on it.
HarvestScript ==
    /\ md_pc = "harvest"
    /\ Len(md_scripts) < MaxScripts
    /\ \E raw \in RawScripts :
          LET harvest == HarvestJsonLd(md_json_ld, raw) IN
          /\ md_scripts' = Append(md_scripts, raw)
          /\ md_json_ld' = harvest.json_ld
          /\ md_pc' = IF harvest.raised THEN "raised" ELSE "harvest"
    /\ UNCHANGED <<md_meta, md_hybrid, pipeVars, restVars>>

\* The document has no further ld+json script: extract_metadata goes on to
\* the <meta> tags and returns.
EndOfScripts ==
    /\ md_pc = "harvest"
    /\ md_meta' \in MetaMaps
    /\ md_pc' = "extracted"
    /\ UNCHANGED <<md_scripts, md_json_ld, md_hybrid, pipeVars, restVars>>

\* get_hybrid_context goes on from raw_meta to the truth sheet.
BuildTruthSheet ==
    /\ md_pc = "extracted"
    /\ md_hybrid' = BuildContext([json_ld |-> md_json_ld, meta |-> md_meta, embedded_json |-> <<>>])
    /\ md_pc' = "built"
    /\ UNCHANGED <<md_scripts, md_json_ld, md_meta, pipeVars, restVars>>

InitMeta == MetaInit /\ PipeIdle /\ RestIdle

NextMeta ==
    \/ HarvestScript
    \/ EndOfScripts
    \/ BuildTruthSheet

SpecMeta == InitMeta /\ [][NextMeta]_vars

----------------------------------------------------------------------------
(* extract_image_urls on the <img> tags of a document, under every base. *)

\* <img> tags of one document
MaxImgs == 2

RelUrl == Text("", "", << <<"img">>, <<"shoe">> >>)
ProtoRelUrl == Text("//", "cdn", << <<"img">>, <<"sole">> >>)
HostOnlyUrl == Text("https", "cdn", <<>>)
Pic1Url == Text("https", "cdn", << <<"img">>, <<"pic1">> >>)
Pic2Url == Text("https", "cdn", << <<"img">>, <<"pic2">> >>)

\* base_url, or the href of <base>: none, "https://shop/", "/assets/", "//cdn/"
AbsBase == Text("https", "shop", <<>>)
RelBase == Text("", "", << <<"assets">> >>)
ProtoRelBase == Text("//", "cdn", <<>>)
Bases == {None, AbsBase, RelBase, ProtoRelBase}

\* "pic1 1x, pic2 2x"; "pic1 1x, pic2 1.5x"; "pic2 800w, , pic1 800w, img/shoe"
Srcsets ==
    {None,
     <<SrcsetEntry(Pic1Url, Descriptor(<<1>>)), SrcsetEntry(Pic2Url, Descriptor(<<2>>))>>,
     <<SrcsetEntry(Pic1Url, Descriptor(<<1>>)), SrcsetEntry(Pic2Url, Descriptor(<<1, 5>>))>>,
     <<SrcsetEntry(Pic2Url, Descriptor(<<800>>)), BlankEntry,
       SrcsetEntry(Pic1Url, Descriptor(<<800>>)), SrcsetEntry(RelUrl, NoDescriptor)>>}

ImgTags == {ImgTag(src, srcset) : src \in {None, GoodUrl, RelUrl, ProtoRelUrl, HostOnlyUrl},
                                  srcset \in Srcsets}

ImgInit ==
    /\ im_doc \in {DocOfTags(base, tags) :
                      base \in Bases, tags \in UNION {[1..n -> ImgTags] : n \in 0..MaxImgs}}
    /\ im_base_url \in Bases
    /\ im_pc = "start" /\ im_best = <<>> /\ im_urls = <<>>

\* extract_image_urls(html_path, base_url) from its call to its return
ExtractImages ==
    /\ im_pc = "start"
    /\ LET found == extract_image_urls(im_doc, im_base_url) IN
       /\ im_best' = [i \in 1..Len(im_doc.imgs) |-> _parse_best_from_srcset(im_doc.imgs[i].srcset)]
       /\ im_urls' = found.urls
       /\ im_pc' = IF found.raised THEN "raised" ELSE "done"
    /\ UNCHANGED <<im_doc, im_base_url, metaVars, pipeVars, pureVars, filterVars, qualVars>>

InitImages == ImgInit /\ MetaIdle /\ PipeIdle /\ FilterIdle /\ QualIdle /\ PureIdle

NextImages == ExtractImages

SpecImages == InitImages /\ [][NextImages]_vars

----------------------------------------------------------------------------
(* _passes_quality on the dimensions of an image. *)

MIN_SIDE == 500
\* ASPECT_LOW, ASPECT_HIGH = 0.8, 1.25, as fractions <<numerator, denominator>>
ASPECT_LOW == <<4, 5>>
ASPECT_HIGH == <<5, 4>>

\* a / b for integers: ZeroDivisionError when b is 0, else the quotient, kept
\* as the fraction <<a, b>>
TrueDiv(a, b) == IF b = 0 THEN [raised |-> TRUE] ELSE [raised |-> FALSE, q |-> <<a, b>>]

FracLess(x, y) == x[1] * y[2] < y[1] * x[2]

\* x <= y for fractions of positive denominator.  The floats of the code order
\* the same way: w / h is the double nearest the quotient, 0.8 the double
\* nearest 4/5 and 1.25 exact, and no quotient of image sizes other than 4/5
\* itself rounds to the double of 0.8.
FracLeq(x, y) == x[1] * y[2] <= y[1] * x[2]

\* _passes_quality(w, h): its value, or raised on a ZeroDivisionError
_passes_quality(w, h) ==
    IF w < MIN_SIDE \/ h < MIN_SIDE
    THEN [raised |-> FALSE, value |-> FALSE]
    ELSE LET aspect == IF h # 0 THEN TrueDiv(w, h) ELSE [raised |-> FALSE, q |-> <<0, 1>>] IN
         IF aspect.raised
         THEN [raised |-> TRUE, value |-> FALSE]
         ELSE [raised |-> FALSE,
               value |-> FracLeq(ASPECT_LOW, aspect.q) /\ FracLeq(aspect.q, ASPECT_HIGH)]

\* The widths and heights of the model: zero, and the sizes about the minimum
\* side and about the two ends of the aspect band.
Sides == {0, 1, 399, 400, 499, 500, 501, 624, 625, 626, 1000}

QualInit == q_w \in Sides /\ q_h \in Sides /\ q_pc = "called" /\ q_pass = FALSE

PassesQuality ==
    /\ q_pc = "called"
    /\ q_pass' = _passes_quality(q_w, q_h).value
    /\ q_pc' = IF _passes_quality(q_w, q_h).raised THEN "raised" ELSE "returned"
    /\ UNCHANGED <<q_w, q_h, metaVars, pipeVars, pureVars, imgVars, filterVars>>

InitQuality == QualInit /\ MetaIdle /\ PipeIdle /\ ImgIdle /\ FilterIdle /\ PureIdle

NextQuality == PassesQuality

SpecQuality == InitQuality /\ [][NextQuality]_vars

----------------------------------------------------------------------------
(* filter_image_urls: the extension pre-filter, the semaphore and the probes. *)

\* urls handed to filter_image_urls
MaxCands == 3
\* the largest max_concurrent the model calls the filter with
MaxConcurrent == 2

VALID_IMAGE_TYPES == {"jpeg", "jpg", "png", "webp"}

JpgUrl == Text("https", "cdn", << <<"img">>, <<"a.jpg">> >>)
PngUrl == Text("https", "cdn", << <<"img">>, <<"C.PNG">> >>)
GifUrl == Text("https", "cdn", << <<"img">>, <<"b.gif">> >>)

\* path.rsplit(".", 1)[-1] of a lower-case path, "" for a path without "."
ExtOf(path) ==
    IF path = <<>> THEN ""
    ELSE LET seg == path[Len(path)]
             last == Lower(seg[Len(seg)])
         IN  CASE last = "a.jpg" -> "jpg"
               [] last = "c.png" -> "png"
               [] last = "b.gif" -> "gif"
               [] OTHER -> ""

AnyImageType(url) == TRUE

\* _is_valid_image_type
_is_valid_image_type(url) == ExtOf(url.path) \in VALID_IMAGE_TYPES

ImgUrlIndicesDeduped(urls) ==
    {i \in 1..Len(urls) : _is_valid_image_type(urls[i]) /\ \A j \in 1..(i - 1) : urls[j] # urls[i]}

\* img_urls = [url for url in urls if _is_valid_image_type(url)], as the
\* positions it keeps: one check() is created for each of them
ImgUrlIndices(urls) == {i \in 1..Len(urls) : _is_valid_image_type(urls[i])}

\* What a probe may come to: a response that is not 200, an exception of the
\* fetch, a payload PIL cannot read, or an image of some size.
Non200 == [kind |-> "non200"]
FetchError == [kind |-> "exception", exc |-> "ClientError"]
Undecodable == [kind |-> "exception", exc |-> "UnidentifiedImageError"]
ImageOf(w, h) == [kind |-> "image", w |-> w, h |-> h]
ProbeOutcomes == {Non200, FetchError, Undecodable, ImageOf(600, 600), ImageOf(600, 100)}

DimsCatchesNothing(exc) == FALSE

\* except Exception in _get_img_dims
DimsCatches(exc) == exc \in ExceptionClasses \cup {"ClientError", "UnidentifiedImageError"}

\* _get_img_dims, given what the probe came to: (width, height), None, or raised
_get_img_dims(probe) ==
    CASE probe.kind = "non200" -> [raised |-> FALSE, dims |-> None]
      [] probe.kind = "exception" ->
             IF DimsCatches(probe.exc) THEN [raised |-> FALSE, dims |-> None]
             ELSE [raised |-> TRUE, dims |-> None]
      [] probe.kind = "image" -> [raised |-> FALSE, dims |-> [w |-> probe.w, h |-> probe.h]]

SemAlwaysFree(value) == TRUE

\* asyncio.Semaphore: acquire goes through while the value is positive
SemFree(value) == value > 0

SemLeaks(value) == value

\* leaving "async with sem", by return or by exception, releases the permit
SemRelease(value) == value + 1

\* The results of the checks in the order in which they returned.
GatherResultsAsCompleted(checked, order) ==
    LET RECURSIVE walk(_)
        walk(k) == IF k > Len(order) THEN <<>>
                   ELSE (IF checked[order[k]] # None THEN <<checked[order[k]]>> ELSE <<>>)
                        \o walk(k + 1)
    IN  walk(1)

\* results = await asyncio.gather(*[check(session, url) for url in img_urls]);
\* return [r for r in results if r is not None]: the results stand in the
\* order of img_urls, whatever the order in which the checks returned.
GatherResults(checked, order) ==
    LET RECURSIVE walk(_)
        walk(i) == IF i > Len(checked) THEN <<>>
                   ELSE (IF checked[i] # None THEN <<checked[i]>> ELSE <<>>) \o walk(i + 1)
    IN  walk(1)

\* check(): the url when the probe gave dimensions that pass, else None
CheckResult(url, dims) ==
    IF dims # None /\ _passes_quality(dims.w, dims.h).value THEN url ELSE None

FilterInit ==
    /\ fl_urls \in UNION {[1..n -> {JpgUrl, PngUrl, GifUrl}] : n \in 0..MaxCands}
    /\ fl_max \in 1..MaxConcurrent
    /\ fl_pc = "start" /\ fl_session = "none" /\ fl_sem = 0 /\ fl_result = <<>>
    /\ fl_finished = <<>>
    /\ fl_check = [i \in 1..Len(fl_urls) |-> "skipped"]
    /\ fl_probes = [i \in 1..Len(fl_urls) |-> 0]
    /\ fl_dims = [i \in 1..Len(fl_urls) |-> Pending]

\* filter_image_urls up to the gather: the pre-filter, the early return, the
\* semaphore, the session and one check() per kept url.
FilterStart ==
    /\ fl_pc = "start"
    /\ IF ImgUrlIndices(fl_urls) = {}
       THEN /\ fl_pc' = "returned"
            /\ fl_result' = <<>>
            /\ UNCHANGED <<fl_session, fl_check, fl_sem>>
       ELSE /\ fl_pc' = "running"
            /\ fl_sem' = fl_max
            /\ fl_session' = "open"
            /\ fl_check' = [i \in 1..Len(fl_urls) |->
                               IF i \in ImgUrlIndices(fl_urls) THEN "waiting" ELSE "skipped"]
            /\ UNCHANGED fl_result
    /\ UNCHANGED <<fl_urls, fl_probes, fl_dims, fl_max, fl_finished,
                   metaVars, pipeVars, pureVars, imgVars, qualVars>>

\* check() of url i enters "async with sem" and _get_img_dims issues session.get
AcquireAndFetch(i) ==
    /\ fl_pc = "running"
    /\ fl_check[i] = "waiting"
    /\ SemFree(fl_sem)
    /\ fl_sem' = fl_sem - 1
    /\ fl_check' = [fl_check EXCEPT ![i] = "probing"]
    /\ fl_probes' = [fl_probes EXCEPT ![i] = @ + 1]
    /\ UNCHANGED <<fl_urls, fl_pc, fl_session, fl_dims, fl_max, fl_finished, fl_result,
                   metaVars, pipeVars, pureVars, imgVars, qualVars>>

\* The probe of url i ends: _get_img_dims returns, the semaphore is released.
\* An exception _get_img_dims let through would leave check(), the gather, the
\* session block and filter_image_urls.
ProbeDone(i) ==
    /\ fl_pc = "running"
    /\ fl_check[i] = "probing"
    /\ \E probe \in ProbeOutcomes :
          LET got == _get_img_dims(probe) IN
          /\ fl_dims' = [fl_dims EXCEPT ![i] = [probe |-> probe, dims |-> got.dims]]
          /\ fl_pc' = IF got.raised THEN "raised" ELSE fl_pc
          /\ fl_session' = IF got.raised THEN "closed" ELSE fl_session
    /\ fl_sem' = SemRelease(fl_sem)
    /\ fl_check' = [fl_check EXCEPT ![i] = "done"]
    /\ fl_finished' = Append(fl_finished, i)
    /\ UNCHANGED <<fl_urls, fl_probes, fl_max, fl_result,
                   metaVars, pipeVars, pureVars, imgVars, qualVars>>

\* Every check() has returned: the gather ends, the session closes and the
\* urls that are not None are returned in the order of img_urls.
FilterReturn ==
    /\ fl_pc = "running"
    /\ \A i \in 1..Len(fl_urls) : fl_check[i] \in {"skipped", "done"}
    /\ LET checked == [i \in 1..Len(fl_urls) |->
                          IF fl_check[i] = "done"
                          THEN CheckResult(fl_urls[i], fl_dims[i].dims) ELSE None]
       IN  fl_result' = GatherResults(checked, fl_finished)
    /\ fl_session' = "closed"
    /\ fl_pc' = "returned"
    /\ UNCHANGED <<fl_urls, fl_check, fl_probes, fl_dims, fl_max, fl_sem, fl_finished,
                   metaVars, pipeVars, pureVars, imgVars, qualVars>>

InitFilter == FilterInit /\ MetaIdle /\ PipeIdle /\ ImgIdle /\ QualIdle /\ PureIdle

NextFilter ==
    \/ FilterStart
    \/ \E i \in 1..Len(fl_urls) : AcquireAndFetch(i)
    \/ \E i \in 1..Len(fl_urls) : ProbeDone(i)
    \/ FilterReturn

SpecFilter == InitFilter /\ [][NextFilter]_vars

-----------------------------------------------------------------------------
(* upgrade_variant_urls on its own: every short list of variants against
   every short list of candidates, called once and then once more. *)

\* variants of the truth sheet handed to upgrade_variant_urls
MaxVariants == 2
\* candidates handed to upgrade_variant_urls
MaxUpCands == 2

\* Two more renditions of the image ThumbUrl and LargeUrl show.
HeroUrl == Text("https", "cdn", << <<"hero">>, <<"9ddf04c7">> >>)
FullUrl == Text("https", "cdn", << <<"full">>, <<"u_9DDF04C7">> >>)

VariantUrls == {None, ThumbUrl, LargeUrl, GoodUrl}
CandidateUrls == {ThumbUrl, LargeUrl, HeroUrl, FullUrl, GoodUrl, BadUrl}

VariantWith(url) == [sku |-> "S1", image_url |-> url]
SheetOf(variants) == [variants |-> variants]

UpgInit ==
    /\ up_variants \in UNION {[1..n -> {VariantWith(u) : u \in VariantUrls}] : n \in 0..MaxVariants}
    /\ up_cands \in UNION {[1..n -> CandidateUrls] : n \in 0..MaxUpCands}
    /\ up_pc = "start" /\ up_first = <<>> /\ up_second = <<>>

\* upgrade_variant_urls(truth_sheet, image_candidates)
UpgradeOnce ==
    /\ up_pc = "start"
    /\ LET up == upgrade_variant_urls(SheetOf(up_variants), up_cands) IN
       /\ up_pc' = IF up.raised THEN "raised" ELSE "once"
       /\ up_first' = up.truth_sheet.variants
    /\ UNCHANGED <<up_variants, up_cands, up_second, metaVars, pipeVars, imgVars, filterVars,
                   qualVars, ddVars, sheetVars>>

\* upgrade_variant_urls called again on the sheet the first call left
UpgradeAgain ==
    /\ up_pc = "once"
    /\ LET up == upgrade_variant_urls(SheetOf(up_first), up_cands) IN
       /\ up_pc' = IF up.raised THEN "raised" ELSE "twice"
       /\ up_second' = up.truth_sheet.variants
    /\ UNCHANGED <<up_variants, up_cands, up_first, metaVars, pipeVars, imgVars, filterVars,
                   qualVars, ddVars, sheetVars>>

InitUpgrade ==
    /\ UpgInit /\ MetaIdle /\ PipeIdle /\ ImgIdle /\ FilterIdle /\ QualIdle /\ DedupeIdle
    /\ SheetIdle

NextUpgrade == UpgradeOnce \/ UpgradeAgain

SpecUpgrade == InitUpgrade /\ [][NextUpgrade]_vars

-----------------------------------------------------------------------------
(* _dedupe_images on its own, on every short list of renditions. *)

\* urls handed to _dedupe_images
MaxDedupe == 3

\* Renditions of the image at GoodUrl: two of one length, a longer one, one
\* with a query string; SideUrl shows another image.
ShoeThumbUrl == Text("https", "cdn", << <<"img">>, <<"shoe", "thumb">> >>)
ShoeLargeUrl == Text("https", "cdn", << <<"img">>, <<"shoe", "LARGE">> >>)
ShoeOriginalUrl == Text("https", "cdn", << <<"img">>, <<"shoe", "original">> >>)
ShoeQueryUrl == [GoodUrl EXCEPT !.query = << <<"wid", "65">> >>]

DedupeUrls == {GoodUrl, ShoeThumbUrl, ShoeLargeUrl, ShoeOriginalUrl, ShoeQueryUrl, SideUrl}

DedupeInit ==
    /\ dd_urls \in UNION {[1..n -> DedupeUrls] : n \in 0..MaxDedupe}
    /\ dd_pc = "called" /\ dd_result = <<>>

\* _dedupe_images(urls)
DedupeImages ==
    /\ dd_pc = "called"
    /\ dd_result' = _dedupe_images(dd_urls)
    /\ dd_pc' = "returned"
    /\ UNCHANGED <<dd_urls, metaVars, pipeVars, imgVars, filterVars, qualVars, upgVars,
                   sheetVars>>

InitDedupe ==
    /\ DedupeInit /\ MetaIdle /\ PipeIdle /\ ImgIdle /\ FilterIdle /\ QualIdle /\ UpgIdle
    /\ SheetIdle

NextDedupe == DedupeImages

SpecDedupe == InitDedupe /\ [][NextDedupe]_vars

-----------------------------------------------------------------------------
(* get_hybrid_context from raw_meta on, embedded JSON included. *)

\* embedded JSON objects of a document
MaxEmbedded == 2

\* A Product whose notes name one feature twice.
LdNotes ==
    JObj(ProductType @@ "name" :> JStr(Plain("Shoe")) @@ "image" :> JStr(GoodUrl)
         @@ "color" :> JStr(Plain("Tan"))
         @@ "positiveNotes" :> JList(<<JStr(Plain("Light")), JStr(Plain("Warm")),
                                       JStr(Plain("Light"))>>))

\* product.media with a COLOR question, and an image at the top level
EmbMedia ==
    JObj("product" :> JObj("media" :> JList(<<JObj("src" :> JStr(SideUrl))>>)
                           @@ "questions" :>
                                JList(<<JObj("type" :> JStr(Plain("COLOR"))
                                             @@ "answers" :>
                                                  JList(<<JObj("title" :> JStr(Plain("Red")))>>))>>))
         @@ "image" :> JStr(LargeUrl))
\* Next.js page props with colorway images
EmbColorway ==
    JObj("props" :> JObj("pageProps" :>
            JObj("colorwayImages" :>
                    JList(<<JObj("colorDescription" :> JStr(Plain("Blue"))
                                 @@ "heroImg" :> JStr(HeroUrl)
                                 @@ "sku" :> JStr(Plain("B7")))>>))))
\* images at the top level, a banner among them
EmbImages == JObj("images" :> JList(<<JStr(GoodUrl), JStr(BannerUrl), JStr(SideUrl)>>))
\* an image below a key that is no product key
EmbState == JObj("state" :> JObj("image" :> JStr(ThumbUrl)))
\* images at nesting depth 3 and 4, below product keys only
EmbDeep ==
    JObj("products" :> JObj("products" :> JObj("products" :>
            JObj("image" :> JStr(LargeUrl)
                 @@ "products" :> JObj("image" :> JStr(ThumbUrl))))))
\* "props" holds a list
EmbBadProps == JObj("props" :> JList(<<JNum(1)>>))

EmbeddedObjects == {EmbMedia, EmbColorway, EmbImages, EmbState, EmbDeep, EmbBadProps}

SheetInit ==
    /\ sh_raw \in [json_ld : {<<>>, <<LdNotes>>, <<LdProduct>>, <<LdBoot>>},
                    meta : {NoMeta, "og:image" :> GoodUrl},
                    embedded_json : UNION {[1..n -> EmbeddedObjects] : n \in 0..MaxEmbedded}]
    /\ sh_pc = "extracted" /\ sh_found = <<>> /\ sh_merged = None /\ sh_result = None

\* get_hybrid_context from raw_meta to its return
BuildSheet ==
    /\ sh_pc = "extracted"
    /\ sh_found' = [i \in 1..Len(sh_raw.embedded_json) |->
                        _extract_product_from_embedded(sh_raw.embedded_json[i])]
    /\ sh_merged' = SheetAfterMerge(sh_raw)
    /\ sh_result' = BuildContext(sh_raw)
    /\ sh_pc' = IF sh_result'.raised THEN "raised" ELSE "returned"
    /\ UNCHANGED <<sh_raw, metaVars, pipeVars, imgVars, filterVars, qualVars, upgVars, ddVars>>

InitSheet ==
    /\ SheetInit /\ MetaIdle /\ PipeIdle /\ ImgIdle /\ FilterIdle /\ QualIdle /\ UpgIdle
    /\ DedupeIdle

NextSheet == BuildSheet

SpecSheet == InitSheet /\ [][NextSheet]_vars

----------------------------------------------------------------------------
(* The batch driver and run_pipeline: claims C1 to C7, under Spec. *)

StageFailed(i) == stage1[i] = "raised" \/ stage2[i] = "raised"

\* Some action of task i is enabled, whatever state the other tasks are in.
CanStep(i) ==
    \/ pc[i] = "created"
    \/ pc[i] = "gather" /\ (stage1[i] = "running" \/ stage2[i] = "running")
    \/ pc[i] = "gather" /\ StageFailed(i)
    \/ pc[i] = "gather" /\ stage1[i] = "ok" /\ stage2[i] = "ok"
    \/ pc[i] = "ai"
IsSentinel(out) == out = Returned(DEFAULT_PRODUCT)

\* C1: run_all_pipelines returns one slot per input path, slot i holding what
\* the task of path i returned or the exception it raised, in whatever order
\* the tasks ended; an exception of one task never leaves the batch driver and
\* never keeps a task that has not ended from taking its next step.
C1_SlotPerPath ==
    /\ batch_pc # "raised"
    /\ batch_pc = "returned" =>
          /\ Len(results) = Len(paths)
          /\ \A i \in Tasks : results[i] = outcome[i] /\ outcome[i] # Pending
    /\ \A i \in Tasks : pc[i] # "done" => CanStep(i)

\* Two tasks, the second ended first with a Product, the first then raised.
C1_Witness ==
    /\ batch_pc = "returned"
    /\ finished = <<2, 1>>
    /\ results[1].kind = "raised"
    /\ results[2].kind = "returned" /\ ~IsSentinel(results[2])

\* C2: whenever a step of run_pipeline raises (a stage, the resolution
\* upgrade, the reasoning call, the post-processing, a reasoning call without
\* parsed object), run_pipeline returns DEFAULT_PRODUCT; no exception leaves it.
C2_AlwaysSentinel ==
    \A i \in Tasks :
        pc[i] = "done" =>
            /\ outcome[i].kind = "returned"
            /\ (StageFailed(i) \/ response[i].kind \in {"raise", "none"}) =>
                   IsSentinel(outcome[i])

\* C3: when stage 1 or stage 2 of a document raises (a missing file included),
\* run_pipeline returns DEFAULT_PRODUCT for it, and every document of the batch
\* gets the result of its own task.
C3_StageFailureSentinel ==
    /\ \A i \in Tasks : (pc[i] = "done" /\ StageFailed(i)) => IsSentinel(outcome[i])
    /\ batch_pc = "returned" =>
          \A i \in Tasks :
              /\ results[i] = outcome[i]
              /\ paths[i] = "missing.html" => IsSentinel(results[i])

\* A missing first document, and a second document with a Product of its own.
C3_Witness ==
    /\ batch_pc = "returned"
    /\ Len(paths) = 2 /\ paths[1] = "missing.html"
    /\ stage1[1] = "raised"
    /\ IsSentinel(results[1])
    /\ results[2].kind = "returned" /\ ~IsSentinel(results[2])

\* C4: when the reasoning call raises (transport, quota, parsing or schema
\* validation), run_pipeline returns DEFAULT_PRODUCT and nothing is raised to
\* the batch driver.
C4_AiFailureSentinel ==
    \A i \in Tasks :
        (pc[i] = "done" /\ response[i].kind = "raise") => IsSentinel(outcome[i])

\* A quota error of the reasoning call, answered by the sentinel.
C4_Witness ==
    \E i \in Tasks :
        /\ pc[i] = "done"
        /\ response[i] = AiRaised("RateLimitError")
        /\ IsSentinel(outcome[i])

\* C5: the Product run_pipeline returns holds no image URL whose path contains
\* a blocklist substring.
C5_ScrubbedResult ==
    \A i \in Tasks :
        (pc[i] = "done" /\ outcome[i].kind = "returned") =>
            \A k \in 1..Len(outcome[i].product.image_urls) :
                ~IsNonProductPath(outcome[i].product.image_urls[k])

\* C6: when the reasoning call returns a Product without images, the truth
\* sheet has none either and a variant of the Product has an image_url, the
\* Product run_pipeline returns has a non-empty image_urls.
C6_VariantPromoted ==
    \A i \in Tasks :
        ( /\ pc[i] = "done"
          /\ response[i].kind = "parsed"
          /\ response[i].product.image_urls = <<>>
          /\ truth_sheet[i].image_urls = <<>>
          /\ \E k \in 1..Len(response[i].product.variants) :
                 response[i].product.variants[k].image_url # None )
        => /\ outcome[i].kind = "returned"
           /\ outcome[i].product.image_urls # <<>>

\* C7: when the reasoning call returns a Product without images and the truth
\* sheet has images, run_pipeline returns that Product with image_urls set to
\* the first truth-sheet image alone; a returned Product that has images is
\* returned as it is.
C7_TruthSheetBackfill ==
    \A i \in Tasks :
        (pc[i] = "done" /\ response[i].kind = "parsed") =>
            LET r == response[i].product
                sheet == truth_sheet[i]
            IN  /\ (r.image_urls = <<>> /\ sheet.image_urls # <<>>) =>
                       outcome[i] =
                           Returned([name |-> r.name,
                                     image_urls |-> <<sheet.image_urls[1]>>,
                                     variants |-> r.variants])
                /\ r.image_urls # <<>> => outcome[i] = Returned(r)

\* A truth sheet of two images, of which the first alone is filled in.
C7_Witness ==
    \E i \in Tasks :
        /\ pc[i] = "done"
        /\ response[i].kind = "parsed"
        /\ response[i].product.image_urls = <<>>
        /\ Len(truth_sheet[i].image_urls) = 2
        /\ outcome[i].product.image_urls = <<GoodUrl>>

----------------------------------------------------------------------------
(* extract_metadata and get_hybrid_context: claims C8 to C10, under SpecMeta. *)

WellFormed(raw) == raw.kind = "json"

\* The entries a script is to contribute: the elements of a list, the value
\* itself otherwise, nothing when it is empty or unparseable.
RECURSIVE EntriesOf(_)
EntriesOf(scripts) ==
    IF scripts = <<>> THEN <<>>
    ELSE LET raw == Head(scripts) IN
         (IF ~WellFormed(raw) THEN <<>>
          ELSE IF IsList(raw.val) THEN raw.val.items ELSE <<raw.val>>)
         \o EntriesOf(Tail(scripts))

\* C8: no entry of the json_ld list extract_metadata returns is itself a list;
\* the elements of a list-form block are entries of their own, in block order,
\* and a single-object block is one entry.
C8_NoListEntry ==
    /\ \A k \in 1..Len(md_json_ld) : ~IsList(md_json_ld[k])
    /\ md_json_ld = EntriesOf(md_scripts)

\* C9: an unparseable or empty JSON-LD block adds no entry and raises nothing,
\* and the json_ld list is the one the document without that block yields.
C9_MalformedSkipped ==
    /\ md_pc # "raised"
    /\ md_json_ld = ExtractJsonLd(SelectSeq(md_scripts, WellFormed)).json_ld
    /\ \A k \in 1..Len(md_scripts) :
          ~WellFormed(md_scripts[k]) =>
              md_json_ld = ExtractJsonLd(SubSeq(md_scripts, 1, k - 1)
                                         \o SubSeq(md_scripts, k + 1, Len(md_scripts))).json_ld

\* An unparseable block ahead of a list-form block whose two elements are harvested.
C9_Witness ==
    /\ md_pc = "extracted"
    /\ Len(md_scripts) = 2
    /\ md_scripts[1] = RawBad
    /\ md_scripts[2] = RawJson(JList(<<LdOrganization, LdProduct>>))
    /\ md_json_ld = <<LdOrganization, LdProduct>>

\* C10: get_hybrid_context raises for no existing document, whatever the shape
\* of its JSON-LD.
C10_NeverRaises == md_pc = "built" => ~md_hybrid.raised

----------------------------------------------------------------------------
(* get_hybrid_context, the truth sheet: claims C11 to C13, under SpecMeta. *)

\* The entries of a JSON-LD list that are Products, in document order.
ProductEntries(json_ld_list) ==
    SelectSeq(json_ld_list, LAMBDA e : IsDict(e) /\ IsProductType(TypeOf(e)))

\* The truth sheet of the document whose JSON-LD is its first Product alone.
FirstProductAlone ==
    LET prods == ProductEntries(md_json_ld) IN
    BuildContext([json_ld |-> IF prods = <<>> THEN <<>> ELSE <<prods[1]>>, meta |-> md_meta,
                  embedded_json |-> <<>>])

\* No field of the sheet that JSON-LD supplies has a value.
JsonLdAbsent(sheet) ==
    /\ sheet.name = None /\ sheet.price = None /\ sheet.description = None
    /\ sheet.video_url = None /\ sheet.category = None /\ sheet.brand = None
    /\ sheet.key_features = <<>> /\ sheet.colors = <<>> /\ sheet.variants = <<>>
    /\ \A k \in 1..Len(sheet.image_urls) : sheet.image_urls[k] = md_meta["og:image"]

\* C11: get_hybrid_context builds the truth sheet from the first JSON-LD entry
\* whose @type is "Product" or a list holding "Product", whatever entries come
\* before or after it; product_json_ld is the whole list in document order; and
\* without a Product entry no truth-sheet field has a value from JSON-LD.
C11_FirstProductSelected ==
    md_pc = "built" =>
        /\ ~md_hybrid.raised
        /\ md_hybrid.truth_sheet = FirstProductAlone.truth_sheet
        /\ md_hybrid.product_json_ld = md_json_ld
        /\ ProductEntries(md_json_ld) = <<>> => JsonLdAbsent(md_hybrid.truth_sheet)

ListFields == {"key_features", "image_urls", "colors", "variants"}

\* C12: no key of the truth sheet get_hybrid_context returns has the value
\* None or an empty list: a field no source supplied is not in the sheet.
C12_NoEmptyField ==
    (md_pc = "built" /\ ~md_hybrid.raised) =>
        \A k \in DOMAIN md_hybrid.truth_sheet :
            IF k \in ListFields THEN md_hybrid.truth_sheet[k] # <<>>
            ELSE md_hybrid.truth_sheet[k] # None

\* The image URLs of the selected Product that pass the non-product filter.
SurvivingLdImages ==
    LET prods == ProductEntries(md_json_ld) IN
    IF prods = <<>> THEN <<>> ELSE _drop_non_product_urls(JsonLdImages(prods[1])).urls

HasOgImage == "og:image" \in DOMAIN md_meta /\ md_meta["og:image"] # EmptyText

----------------------------------------------------------------------------
(* extract_image_urls and _parse_best_from_srcset: claims C14 and C15, under
   SpecImages. *)

\* C14: every URL extract_image_urls returns starts with http:// or https://
\* and has a non-empty path, whatever the base_url argument and the <base href>
\* of the document (absolute, relative, protocol-relative or none).
C14_AbsoluteUrls ==
    im_pc = "done" =>
        \A k \in 1..Len(im_urls) :
            im_urls[k].scheme \in {"http", "https"} /\ im_urls[k].path # <<>>

\* The number a descriptor denotes, in tenths: "2x" is 20, "1.5x" is 15, "800w"
\* is 8000, and an entry without descriptor counts 0.
DescriptorValue(entry) ==
    LET runs == entry.descriptor.runs IN
    IF runs = <<>> THEN 0
    ELSE IF Len(runs) = 1 THEN 10 * runs[1] ELSE 10 * runs[1] + runs[2]

\* C15: for every srcset with an entry, _parse_best_from_srcset returns the URL
\* of the entry whose width or density descriptor is the highest number, the
\* first-listed of the entries that share it.
C15_BestOfSrcset ==
    im_pc = "done" =>
        \A i \in 1..Len(im_best) :
            LET srcset == im_doc.imgs[i].srcset IN
            srcset # None =>
                \E k \in 1..Len(srcset) :
                    /\ srcset[k].url # None
                    /\ im_best[i] = srcset[k].url
                    /\ \A j \in 1..Len(srcset) :
                           srcset[j].url # None =>
                               \/ DescriptorValue(srcset[k]) > DescriptorValue(srcset[j])
                               \/ DescriptorValue(srcset[k]) = DescriptorValue(srcset[j]) /\ k <= j

----------------------------------------------------------------------------
(* _passes_quality: claim C16, under SpecQuality. *)

\* C16: _passes_quality(w, h) is true exactly when w >= 500, h >= 500 and
\* 0.8 <= w/h <= 1.25, both ends included (4h <= 5w and 4w <= 5h); it returns
\* for every pair of non-negative integers, false when w or h is 0, and never
\* divides by zero.
C16_QualityBand ==
    /\ q_pc # "raised"
    /\ q_pc = "returned" =>
          /\ q_pass = (q_w >= 500 /\ q_h >= 500 /\ 4 * q_h <= 5 * q_w /\ 4 * q_w <= 5 * q_h)
          /\ (q_w = 0 \/ q_h = 0) => ~q_pass

\* An image of 500 by 625, at the low end of the band, passes.
C16_Witness == q_pc = "returned" /\ q_w = 500 /\ q_h = 625 /\ q_pass

----------------------------------------------------------------------------
(* filter_image_urls: claims C17 to C20, under SpecFilter. *)

AllowedExtension(url) == ExtOf(url.path) \in {"jpeg", "jpg", "png", "webp"}

\* C17: filter_image_urls issues no probe for a url whose extension is outside
\* {jpeg, jpg, png, webp}; when no url of the input has an allowed extension it
\* returns the empty list without opening a session.
C17_NoProbeForOtherTypes ==
    /\ \A i \in 1..Len(fl_urls) :
          ~AllowedExtension(fl_urls[i]) => fl_probes[i] = 0 /\ fl_check[i] = "skipped"
    /\ (\A i \in 1..Len(fl_urls) : ~AllowedExtension(fl_urls[i])) =>
          /\ fl_session = "none"
          /\ fl_pc # "start" => fl_pc = "returned" /\ fl_result = <<>>

\* A .gif ahead of a .jpg: the filter has returned, with one probe, for the .jpg.
C17_Witness ==
    /\ fl_pc = "returned"
    /\ fl_urls = <<GifUrl, JpgUrl>>
    /\ fl_probes = <<0, 1>>

ProbeFailed(i) == fl_check[i] = "done" /\ fl_dims[i].probe.kind \in {"non200", "exception"}

\* The urls whose probe gave the dimensions of a product-quality image.
RECURSIVE PassedFrom(_)
PassedFrom(i) ==
    IF i > Len(fl_urls) THEN <<>>
    ELSE (IF /\ fl_check[i] = "done"
             /\ fl_dims[i].probe.kind = "image"
             /\ _passes_quality(fl_dims[i].probe.w, fl_dims[i].probe.h).value
          THEN <<fl_urls[i]>> ELSE <<>>) \o PassedFrom(i + 1)

\* C18: a probe that ends in a non-200 response, a fetch exception or a payload
\* that is no image gives no dimensions; no exception leaves the filter, and
\* the result holds, in input order, the urls whose own probe gave passing
\* dimensions, whatever the other probes came to.
C18_FailedProbeDropped ==
    /\ fl_pc # "raised"
    /\ \A i \in 1..Len(fl_urls) : ProbeFailed(i) => fl_dims[i].dims = None
    /\ fl_pc = "returned" => fl_result = PassedFrom(1)

\* A fetch exception for the first url, an undecodable payload for the second
\* and a good image for the third.
C18_Witness ==
    /\ fl_pc = "returned"
    /\ fl_urls = <<JpgUrl, JpgUrl, PngUrl>>
    /\ fl_dims[1].probe = FetchError
    /\ fl_dims[2].probe = Undecodable
    /\ fl_dims[3].probe = ImageOf(600, 600)
    /\ fl_result = <<PngUrl>>

InFlight == {i \in 1..Len(fl_urls) : fl_check[i] = "probing"}

\* C19: at any moment at most max_concurrent probes are in flight.
C19_BoundedInFlight == Cardinality(InFlight) <= fl_max

\* max_concurrent probes in flight while a further check() waits.
C19_Witness ==
    /\ fl_max = 2
    /\ Cardinality(InFlight) = fl_max
    /\ \E i \in 1..Len(fl_urls) : fl_check[i] = "waiting"

\* C20: every url that passes the extension pre-filter is probed exactly once,
\* equal urls each on their own: never twice, and once by the time the filter
\* returns, also when other probes fail and when there are more urls than
\* max_concurrent.
C20_OneProbeEach ==
    /\ \A i \in 1..Len(fl_urls) : fl_probes[i] <= 1
    /\ fl_pc = "returned" =>
          \A i \in 1..Len(fl_urls) : AllowedExtension(fl_urls[i]) => fl_probes[i] = 1

\* The same url three times under max_concurrent 1, the first probe failed.
C20_Witness ==
    /\ fl_pc = "returned"
    /\ fl_max = 1
    /\ fl_urls = <<JpgUrl, JpgUrl, JpgUrl>>
    /\ fl_dims[1].probe = Non200
    /\ fl_probes = <<1, 1, 1>>


-----------------------------------------------------------------------------
(* The reasoning call and the truth sheet within run_pipeline. *)

\* What the two branches return for the document of task i, and the sheet
\* the resolution upgrade makes of it.
ContextOf(i) == get_hybrid_context(Document(paths[i]))
MediaOf(i) == get_filtered_media(Document(paths[i]))
UpgradedSheet(i) ==
    upgrade_variant_urls(ContextOf(i).truth_sheet, MediaOf(i).candidates).truth_sheet

StageRaised(i) == stage1[i] = "raised" \/ stage2[i] = "raised"

\* C23: in every run of run_pipeline ai.responses is called at most once; it
\* has been called only when both branches returned, and while the call is in
\* flight the truth sheet is the upgraded one; it is never called for a
\* document one of whose branches raised.
C23_OneCallAfterBothStages ==
    \A i \in Tasks :
        /\ ai_calls[i] <= 1
        /\ ai_calls[i] >= 1 => stage1[i] = "ok" /\ stage2[i] = "ok"
        /\ pc[i] = "ai" => ai_calls[i] = 1 /\ truth_sheet[i] = UpgradedSheet(i)
        /\ StageRaised(i) => ai_calls[i] = 0

\* A batch in which one run has called the model on an upgraded sheet and
\* ended, and another has ended without a call because a branch raised.
C23_Witness ==
    \E i, j \in Tasks :
        /\ pc[i] = "done" /\ ai_calls[i] = 1 /\ response[i] # Pending
        /\ truth_sheet[i] # ContextOf(i).truth_sheet
        /\ pc[j] = "done" /\ StageRaised(j) /\ ai_calls[j] = 0
        /\ outcome[j] = Returned(DEFAULT_PRODUCT)

\* C24: the truth sheet of a run changes only while the run awaits its
\* branches: it is set by the truth sheet branch and rewritten by
\* upgrade_variant_urls; once the reasoning call is issued, and until the run
\* has returned, it is unchanged.
C24_SheetFrozenAfterCall ==
    [][\A i \in Tasks :
          /\ pc[i] \in {"ai", "done"} => truth_sheet'[i] = truth_sheet[i]
          /\ truth_sheet'[i] # truth_sheet[i] =>
                /\ pc[i] = "gather"
                /\ \/ stage1[i] = "running" /\ truth_sheet'[i] = ContextOf(i).truth_sheet
                   \/ /\ stage1[i] = "ok" /\ stage2[i] = "ok"
                      /\ truth_sheet'[i] = UpgradedSheet(i)]_vars

\* A run that returned with the first image of the truth sheet filled in for
\* a product without images, the sheet still holding all of its images.
C24_Witness ==
    \E i \in Tasks :
        /\ pc[i] = "done" /\ response[i].kind = "parsed"
        /\ response[i].product.image_urls = <<>>
        /\ Len(truth_sheet[i].image_urls) >= 2
        /\ outcome[i].kind = "returned"
        /\ outcome[i].product.image_urls = <<truth_sheet[i].image_urls[1]>>
        /\ truth_sheet[i] = UpgradedSheet(i)
        /\ truth_sheet[i] # ContextOf(i).truth_sheet

-----------------------------------------------------------------------------
(* The order of the filter's result, and its termination. *)

Passed(i) ==
    /\ fl_check[i] = "done"
    /\ fl_dims[i].probe.kind = "image"
    /\ _passes_quality(fl_dims[i].probe.w, fl_dims[i].probe.h).value

\* C21: the list filter_image_urls returns is a subsequence of its input: its
\* urls are urls whose probe passed, taken at strictly increasing positions of
\* the input, whatever the order in which the probes ended.
C21_ResultIsSubsequence ==
    fl_pc = "returned" =>
        \E f \in [1..Len(fl_result) -> 1..Len(fl_urls)] :
            /\ \A k \in 1..Len(fl_result) : fl_result[k] = fl_urls[f[k]] /\ Passed(f[k])
            /\ \A k, l \in 1..Len(fl_result) : k < l => f[k] < f[l]

\* The probe of the last url ended first and that of the first url last; both
\* passed and stand in the result in input order.
C21_Witness ==
    /\ fl_pc = "returned"
    /\ fl_urls = <<JpgUrl, GifUrl, PngUrl>>
    /\ fl_finished = <<3, 1>>
    /\ fl_result = <<JpgUrl, PngUrl>>

\* Termination is followed for lists of a url of a valid type and a url the
\* pre-filter drops, in every arrangement.
InitFilterFair == InitFilter /\ \A i \in 1..Len(fl_urls) : fl_urls[i] \in {JpgUrl, GifUrl}

\* The event loop runs a step of filter_image_urls whenever one can be taken.
SpecFilterFair == InitFilterFair /\ [][NextFilter]_vars /\ WF_vars(NextFilter)

\* C22: every probe terminating, filter_image_urls terminates: it returns.
C22_FilterTerminates == <>(fl_pc = "returned")

\* More checks than permits: every check has acquired, probed and released,
\* one of the probes having failed, and the filter has returned.
C22_Witness ==
    /\ fl_pc = "returned"
    /\ Cardinality(ImgUrlIndices(fl_urls)) > fl_max
    /\ \A i \in ImgUrlIndices(fl_urls) : fl_check[i] = "done" /\ fl_probes[i] = 1
    /\ \E i \in ImgUrlIndices(fl_urls) : fl_dims[i].probe = FetchError
    /\ fl_sem = fl_max

-----------------------------------------------------------------------------
(* The resolution upgrade of a variant. *)

Score(u) == _resolution_score(u)
IdentityOf(u) == _image_identity(u).ident

\* Candidate k is the one the claim names for the url current: it shares the
\* identity of current, no candidate of that identity scores higher, none
\* before it scores as high, and it scores strictly higher than current.
Names(k, current) ==
    /\ current # None /\ IdentityOf(current) # None
    /\ IdentityOf(up_cands[k]) = IdentityOf(current)
    /\ \A m \in 1..Len(up_cands) :
          IdentityOf(up_cands[m]) = IdentityOf(current) =>
             /\ Score(up_cands[m]) <= Score(up_cands[k])
             /\ m < k => Score(up_cands[m]) < Score(up_cands[k])
    /\ Score(up_cands[k]) > Score(current)

\* C25: upgrade_variant_urls replaces the image_url of a variant by candidate
\* c exactly when c is the highest-scored candidate of the identity of the
\* current url (the first seen among equally scored) and scores strictly
\* higher than the current url; every other variant, and every other field,
\* is left as it was.
C25_UpgradeExactlyWhenBetter ==
    up_pc \in {"once", "twice"} =>
        /\ Len(up_first) = Len(up_variants)
        /\ \A i \in 1..Len(up_variants) :
              LET current == up_variants[i].image_url
                  named == {k \in 1..Len(up_cands) : Names(k, current)}
              IN  /\ up_first[i].sku = up_variants[i].sku
                  /\ named # {} => \A k \in named : up_first[i].image_url = up_cands[k]
                  /\ named = {} => up_first[i].image_url = current

\* The thumbnail of a variant against two equally scored larger renditions of
\* the same image, after a lower one: the first of the two replaces it; the
\* variant of another image is left alone.
C25_Witness ==
    /\ up_pc = "once"
    /\ up_variants = <<VariantWith(ThumbUrl), VariantWith(GoodUrl)>>
    /\ up_cands = <<FullUrl, HeroUrl>>
    /\ up_first = <<VariantWith(FullUrl), VariantWith(GoodUrl)>>

\* C26: upgrade_variant_urls is idempotent: a second call with the same
\* candidates leaves the sheet as the first call left it.
C26_UpgradeIdempotent == up_pc = "twice" => up_second = up_first

\* A second call after a first one that replaced a url.
C26_Witness ==
    /\ up_pc = "twice"
    /\ up_variants = <<VariantWith(ThumbUrl)>>
    /\ up_cands = <<LargeUrl, HeroUrl>>
    /\ up_first = <<VariantWith(HeroUrl)>>
    /\ up_second = up_first

-----------------------------------------------------------------------------
(* One url per image identity. *)

SameImage(u, v) == DedupeIdentity(u) = DedupeIdentity(v)
FirstIndexOf(u) == CHOOSE j \in 1..Len(dd_urls) :
                       SameImage(dd_urls[j], u) /\ \A m \in 1..(j - 1) : ~SameImage(dd_urls[m], u)

\* C27: _dedupe_images returns exactly one url for each identity of its input
\* (query string and resolution markers stripped): an input url, the longest
\* of its identity and the earliest of the longest ones, the identities in
\* the order of their first appearance in the input.
C27_OneLongestPerIdentity ==
    dd_pc = "returned" =>
        /\ \A j \in 1..Len(dd_urls) :
               Cardinality({k \in 1..Len(dd_result) : SameImage(dd_result[k], dd_urls[j])}) = 1
        /\ \A k \in 1..Len(dd_result) :
               \E j \in 1..Len(dd_urls) :
                   /\ dd_urls[j] = dd_result[k]
                   /\ \A m \in 1..Len(dd_urls) :
                          SameImage(dd_urls[m], dd_urls[j]) =>
                             /\ UrlLen(dd_urls[m]) <= UrlLen(dd_urls[j])
                             /\ m < j => UrlLen(dd_urls[m]) < UrlLen(dd_urls[j])
        /\ \A k, l \in 1..Len(dd_result) :
               k < l => FirstIndexOf(dd_result[k]) < FirstIndexOf(dd_result[l])

\* Three renditions of one image after another image: the first of the two
\* longest stands for the image, behind the url of the other image.
C27_Witness ==
    /\ dd_pc = "returned"
    /\ dd_urls = <<GoodUrl, SideUrl, ShoeLargeUrl>>
    /\ dd_result = <<ShoeLargeUrl, SideUrl>>

-----------------------------------------------------------------------------
(* The embedded JSON in the truth sheet. *)

\* The first embedded object that gave the field, as a list of none or one.
FirstWith(field) ==
    LET hits == {i \in 1..Len(sh_found) : sh_found[i][field] # <<>>} IN
    IF hits = {} THEN <<>> ELSE sh_found[CHOOSE i \in hits : \A j \in hits : i <= j][field]

IsPrefix(a, b) == Len(a) <= Len(b) /\ SubSeq(b, 1, Len(a)) = a

\* C28: at the end of the merge loop the colors (the variants) of the truth
\* sheet are those of the JSON-LD when it gave any, else those of the first
\* embedded object that gave any: no later object overwrites them; the
\* image_urls are those the sheet had, followed by the urls of every embedded
\* object that are not yet in the list.  The returned sheet has these colors
\* and variants, and these image_urls without the non-product paths.
C28_EmbeddedFillsEmptyFields ==
    sh_pc = "returned" =>
        LET base == SheetBeforeMerge(sh_raw).truth_sheet IN
        /\ sh_merged.truth_sheet.colors = IF base.colors # <<>> THEN base.colors ELSE FirstWith("colors")
        /\ sh_merged.truth_sheet.variants =
               IF base.variants # <<>> THEN base.variants ELSE FirstWith("variants")
        /\ IsPrefix(base.image_urls, sh_merged.truth_sheet.image_urls)
        /\ Range(sh_merged.truth_sheet.image_urls) =
               Range(base.image_urls)
               \cup UNION {Range(sh_found[i].image_urls) : i \in 1..Len(sh_found)}
        /\ sh_result.truth_sheet.colors = sh_merged.truth_sheet.colors
        /\ sh_result.truth_sheet.variants = sh_merged.truth_sheet.variants
        /\ sh_result.truth_sheet.image_urls =
               SelectSeq(sh_merged.truth_sheet.image_urls, LAMBDA u : ~IsNonProductPath(u))

\* A Product with a color and no variant, then two embedded objects that both
\* give colors, variants and an image: the color of the JSON-LD and the
\* variants of the first object stay, the images of both are added.
C28_Witness ==
    /\ sh_pc = "returned"
    /\ sh_raw.json_ld = <<LdNotes>>
    /\ sh_raw.embedded_json = <<EmbMedia, EmbColorway>>
    /\ sh_result.truth_sheet.colors = <<Plain("Tan")>>
    /\ sh_result.truth_sheet.variants = sh_found[1].variants
    /\ sh_found[2].variants # <<>> /\ sh_found[2].colors # <<>>
    /\ sh_result.truth_sheet.image_urls = <<GoodUrl, SideUrl, HeroUrl>>

NoDuplicates(seq) == \A i, j \in 1..Len(seq) : seq[i] = seq[j] => i = j

\* C29: in the truth sheet get_hybrid_context returns, key_features and
\* image_urls hold no string twice.
C29_NoDuplicateEntries ==
    sh_pc = "returned" =>
        /\ NoDuplicates(sh_result.truth_sheet.key_features)
        /\ NoDuplicates(sh_result.truth_sheet.image_urls)

\* The texts under "image" and "images" keys of the objects nested in v, down
\* to nesting depth 4, whatever the keys on the way to them.
RECURSIVE ImagesDownTo(_, _)
ImagesDownTo(v, depth) ==
    IF ~IsDict(v) \/ depth >= 4 THEN {}
    ELSE UNION {(IF k \in {"image", "images"}
                 THEN {x.s : x \in {y \in Range(_to_list(v.f[k])) : IsStr(y)}} ELSE {})
                \cup (IF IsDict(v.f[k]) THEN ImagesDownTo(v.f[k], depth + 1)
                      ELSE IF IsList(v.f[k])
                           THEN UNION {ImagesDownTo(x, depth + 1) : x \in Range(v.f[k].items)}
                           ELSE {})
                : k \in DOMAIN v.f}

\* C30: an embedded object in which the product.media and colorway heuristics
\* find something is not searched further; in any other the heuristic search
\* harvests the images of every "image" and "images" key down to nesting
\* depth 4, whatever keys lie on the path, and nothing below.
C30_HeuristicSearchAtAnyPath ==
    sh_pc = "returned" =>
        \A i \in 1..Len(sh_found) :
            LET data == sh_raw.embedded_json[i]
                specific == SpecificHeuristics(data)
            IN  IF HeuristicOnlyWhenEmpty(specific)
                THEN Range(sh_found[i].image_urls) = ImagesDownTo(data, 0)
                ELSE sh_found[i] = [raised |-> FALSE] @@ specific

====
